---- MODULE Spec2Model ----
(***************************************************************************)
(* CoffeeTalk REST API (express + mongodb), latest revision of the server  *)
(* file (src/unnamed/part_000).                                            *)
(*                                                                         *)
(* The model has the two collections the handlers write (recipes and       *)
(* favorites) and a fixed number of request slots.  Every handler is cut   *)
(* at its awaited storage calls: one action is one storage call together   *)
(* with the handler code that runs up to the next await (or up to the      *)
(* response).  A storage call either takes effect atomically on one        *)
(* document (updateMany: on each matching document) or throws, in which    *)
(* case the handler's catch block answers 500.                             *)
(*                                                                         *)
(* Numbers.  JavaScript numbers are IEEE-754 doubles.  TLC has 32-bit      *)
(* integers, so a quotient of two small positive integers is kept as the   *)
(* exact fraction num/den together with the sign of the rounding error     *)
(* the double division makes (err), from which toFixed(1) is computed      *)
(* exactly.  A value with one decimal (average_rating) is kept as its      *)
(* number of tenths: 14 stands for the double that parseFloat("1.4")       *)
(* returns.                                                                *)
(***************************************************************************)
EXTENDS Integers, Sequences, FiniteSets, TLC

VARIABLES
    recipes,        \* the recipes collection: _id -> document
    created,        \* how many recipe _ids insertOne has assigned so far
    clock,          \* the time of the latest new Date() of a recipe create or update
    favorites,      \* the favorites collection, in insertion order; _id = position
    pc,             \* per request slot: the storage call its handler awaits, or "idle"
    req,            \* per request slot: the request being handled
    loc,            \* per request slot: the handler's local variables
    lastResponse,   \* the response sent most recently, with its request
    appends,        \* how many review _ids (new ObjectId()) have been generated
    solo,           \* the slot whose request has run with no step of another slot
                    \* since it arrived while all others were idle, or 0
    overlapped,     \* the recipes on which two review-appends were in flight at once
    calc,           \* SpecAverage only: one call of computeAverageRating
    sortOption      \* the global sortOption of GET /recipes: the key it sorts by

dbVars  == <<recipes, created, favorites>>
reqVars == <<pc, req, loc, lastResponse, appends, solo, overlapped>>
vars    == <<recipes, created, clock, favorites, pc, req, loc, lastResponse, appends,
             solo, overlapped, calc, sortOption>>

(***************************************************************************)
(* Bounds                                                                  *)
(***************************************************************************)
\* most reviews the recipe of a computeAverageRating call holds (SpecAverage)
MaxExisting == 19
\* request slots: how many requests are handled at the same time
NumProcs == 2
\* recipe _ids that exist or can be assigned
MaxRecipes == 2
\* review-append requests that get as far as building their review
MaxAppends == 2
\* reviews of the long-standing recipe some initial states hold
SeedLen == 19
\* recipe create and update requests that get as far as their new Date()
MaxWrites == 1
\* salts BcryptUtil.hash draws from
NumSalts == 1
\* Favorites records, and recipe references per record
MaxFavEntries == 2
\* recipes of the server that GET /recipes lists (SpecList)
MaxListed == 4
\* salts the owner hashes of the stored recipes were made with (SpecById)
NumOwnerSalts == 2
\* recipes on the server that answers requests by recipe id (SpecById)
MaxById == 2
\* documents in each of the beans, grinders, brewers and methods collections
NumReferences == 2
\* coffee beans of a recipe populateRecipeFields is called with (SpecPopulate)
MaxBeans == 3
\* recipes a user has favorited on the server that GET /favorites lists (SpecFavList)
MaxFavorited == 11

Procs     == 1..NumProcs
RecipeIds == 1..MaxRecipes
Salts     == 1..NumSalts

(***************************************************************************)
(* IEEE-754 double division and Number.prototype.toFixed(1)                *)
(***************************************************************************)
\* fraction bits of a double's significand
DoubleFractionBits == 52

RECURSIVE PowMod(_, _, _)
\* b^k modulo m
PowMod(b, k, m) == IF k = 0 THEN 1 % m ELSE (b * PowMod(b, k - 1, m)) % m

RECURSIVE Log2Up(_, _)
\* for num >= den >= 1: the e >= 0 with 2^e <= num/den < 2^(e+1)
Log2Up(num, den) == IF num < 2 * den THEN 0 ELSE 1 + Log2Up(num, 2 * den)

RECURSIVE Log2Down(_, _)
\* for 1 <= num < den: the k >= 1 with 2^(-k) <= num/den < 2^(-k+1)
Log2Down(num, den) == IF num >= den THEN 0 ELSE 1 + Log2Down(2 * num, den)

\* binary exponent of the positive quotient num/den
BinaryExponent(num, den) ==
    IF num >= den THEN Log2Up(num, den) ELSE 0 - Log2Down(num, den)

\* Sign of (double nearest to num/den) - num/den for num, den >= 1: the
\* division rounds num/den * 2^t, t = 52 - exponent, to the nearest integer,
\* ties to the even one.  The remainder is taken modulo 2*den, which also
\* gives the parity of the integer part.
DivRoundingSign(num, den) ==
    LET t    == DoubleFractionBits - BinaryExponent(num, den)
        r2   == ((num % (2 * den)) * PowMod(2, t, 2 * den)) % (2 * den)
        rem  == r2 % den
    IN  IF rem = 0 THEN 0
        ELSE IF 2 * rem < den THEN -1
        ELSE IF 2 * rem > den THEN 1
        ELSE IF r2 >= den THEN 1 ELSE -1

\* the double that the JavaScript expression num / den evaluates to
\* (num >= 0, den >= 1, both below 2^14)
DoubleDiv(num, den) ==
    [num |-> num, den |-> den,
     err |-> IF num = 0 THEN 0 ELSE DivRoundingSign(num, den)]

\* x.toFixed(1) for x = DoubleDiv(num, den), as a number of tenths: the n with
\* n/10 - x closest to zero, the larger n when two are equally close.  x is
\* within 2^-33 of num/den, so x is equally close to two n only when 10*num/den
\* is k + 1/2 and x is that value exactly; when the division rounded, its
\* direction decides.
ToFixed1(x) ==
    LET f == (10 * x.num) \div x.den
        r == (10 * x.num) % x.den
    IN  IF 2 * r < x.den THEN f
        ELSE IF 2 * r > x.den THEN f + 1
        ELSE IF x.err >= 0 THEN f + 1 ELSE f

(***************************************************************************)
(* Rating Aggregator                                                       *)
(***************************************************************************)
Ratings == 1..5

RECURSIVE SumRatings(_)
\* the loop over recipeRecord.reviews; a stored rating is already an integer,
\* on which parseInt has no effect
SumRatings(reviews) ==
    IF reviews = <<>> THEN 0
    ELSE Head(reviews).rating + SumRatings(Tail(reviews))

\* computeAverageRating on the reviews its findOne returned: the new
\* average_rating in tenths
computeAverageRating(reviews, newRating) ==
    ToFixed1(DoubleDiv(SumRatings(reviews) + newRating, Len(reviews) + 1))

(***************************************************************************)
(* What the specification states: num/den to one decimal, ties away from   *)
(* zero, in tenths (num >= 0, den >= 1)                                    *)
(***************************************************************************)
RoundHalfAway(num, den) == (20 * num + den) \div (2 * den)

(***************************************************************************)
(* Values of requests and documents                                        *)
(***************************************************************************)
\* a field the request does not carry
Undefined == "<undefined>"

\* identifiers as the client sends them: a recipe _id, or a string that is not
\* in the ObjectId format
MalformedId == 0
IdInputs == RecipeIds \cup {MalformedId}

\* a validity test that accepts every id
AnyIdIsValid(id) == TRUE

\* ObjectId.isValid
ObjectIdIsValid(id) == id # MalformedId

\* email addresses the requests use; validateEmail's regular expression accepts
\* the first two
WellFormedEmails == {"ann@mail.io", "bob@mail.io"}
MalformedEmail == "ann.mail.io"

validateEmail(email) == email \in WellFormedEmails

\* BcryptUtil.hash with the salt bcrypt drew, and BcryptUtil.compareHash
hash(plainText, salt) == [plain |-> plainText, salt |-> salt]
\* a comparison that hashes the input again and compares the two hashes
CompareRehashed(plainText, h) == hash(plainText, 1) = h

compareHash(plainText, h) == h.plain = plainText

\* parseInt on the rating values the requests use
ParseInt(raw) ==
    CASE raw = "1"    -> [nan |-> FALSE, n |-> 1]
      [] raw = "5"    -> [nan |-> FALSE, n |-> 5]
      [] raw = "9"    -> [nan |-> FALSE, n |-> 9]
      [] raw = "0"    -> [nan |-> FALSE, n |-> 0]
      [] raw = "3abc" -> [nan |-> FALSE, n |-> 3]
      [] raw = "5abc" -> [nan |-> FALSE, n |-> 5]
      [] raw = "2"    -> [nan |-> FALSE, n |-> 2]
      [] raw = "3"    -> [nan |-> FALSE, n |-> 3]
      [] OTHER        -> [nan |-> TRUE, n |-> 0]

\* a 500 that tells the cause
DetailedError == {<<"message", "MongoServerSelectionError: connection timed out">>}

\* the body sendDatabaseError sends
DatabaseError == {<<"message", "Unable to communicate with database">>}

NoReq == [kind |-> "none"]
NoLoc == [none |-> TRUE]
NoResponse ==
    [req |-> NoReq, loc |-> NoLoc, code |-> 0, data |-> {}, alone |-> FALSE]

(***************************************************************************)
(* Storage operations                                                      *)
(***************************************************************************)
\* the collection without document id (deleteOne by _id)
DeleteById(coll, id) == [i \in DOMAIN coll \ {id} |-> coll[i]]

\* the collection with a new document under id (insertOne)
InsertAt(coll, id, doc) ==
    [i \in DOMAIN coll \cup {id} |-> IF i = id THEN doc ELSE coll[i]]

\* the mean of the stored ratings as the code rounds it (the quotient as a
\* double, then toFixed(1)); 0 for no reviews
CodeRoundedMean(reviews) ==
    IF reviews = <<>> THEN 0
    ELSE ToFixed1(DoubleDiv(SumRatings(reviews), Len(reviews)))

\* {$push: {reviews: review}} alone: the update without its $set
PushReviewOnly(doc, review, avg) ==
    [doc EXCEPT !.reviews = Append(@, review)]

\* the update with the average recomputed from the stored list at write time
PushReviewFreshAverage(doc, review, avg) ==
    [doc EXCEPT !.reviews = Append(@, review),
                !.average_rating = CodeRoundedMean(Append(doc.reviews, review))]

\* the update document {$push: {reviews: review}, $set: {average_rating: avg}}
\* applied to one recipe
PushReviewSetAverage(doc, review, avg) ==
    [doc EXCEPT !.reviews = Append(@, review), !.average_rating = avg]

\* the projection {'reviews.rating': 1}
ProjectRatings(reviews) == [i \in 1..Len(reviews) |-> [rating |-> reviews[i].rating]]

\* {$pull: {coffee_recipes: id}}: every occurrence goes
Pull(list, id) == SelectSeq(list, LAMBDA x : x # id)

\* does the list hold id ({coffee_recipes: {$in: [id]}})
Holds(list, id) == \E i \in 1..Len(list) : list[i] = id

\* the $pull applied to the first matching record only (updateOne)
PullFromFirst(favs, id) ==
    [i \in 1..Len(favs) |->
        IF \E j \in 1..(i - 1) : Holds(favs[j].coffee_recipes, id)
        THEN favs[i]
        ELSE [favs[i] EXCEPT !.coffee_recipes = Pull(@, id)]]

\* updateMany({coffee_recipes: {$in: [id]}}, {$pull: {coffee_recipes: id}})
PullFromAll(favs, id) ==
    [i \in 1..Len(favs) |-> [favs[i] EXCEPT !.coffee_recipes = Pull(@, id)]]

(***************************************************************************)
(* Request slots                                                           *)
(***************************************************************************)
\* solo after a step of slot p that does not end its request
SoloAfter(p) ==
    IF pc[p] = "idle"
    THEN IF \A q \in Procs \ {p} : pc[q] = "idle" THEN p ELSE 0
    ELSE IF solo = p THEN p ELSE 0

\* The handler of slot p sends its response (sendSuccessResponse,
\* sendInvalidError or sendDatabaseError) and returns.  r is the request and l
\* the handler's locals at that point.
Finish(p, r, l, code, data) ==
    /\ lastResponse' = [req |-> r, loc |-> l, code |-> code, data |-> data,
                        alone |-> SoloAfter(p) = p]
    /\ pc' = [pc EXCEPT ![p] = "idle"]
    /\ req' = [req EXCEPT ![p] = NoReq]
    /\ loc' = [loc EXCEPT ![p] = NoLoc]
    /\ solo' = 0

\* The handler of slot p goes on to await the storage call named next.
Await(p, r, l, next) ==
    /\ pc' = [pc EXCEPT ![p] = next]
    /\ req' = [req EXCEPT ![p] = r]
    /\ loc' = [loc EXCEPT ![p] = l]
    /\ solo' = SoloAfter(p)
    /\ UNCHANGED lastResponse

(***************************************************************************)
(* POST /recipes/:recipe_id/reviews                                        *)
(***************************************************************************)
GoodReview(rating) ==
    [title |-> "Great brew", content |-> "Sweet and clean", rating |-> rating,
     username |-> "annie", email |-> "ann@mail.io"]

\* the request bodies the model sends
ReviewBodies ==
    { GoodReview("1"), GoodReview("5"), GoodReview("9"), GoodReview("5abc"),
      [GoodReview("5") EXCEPT !.title = "Meh"],
      [GoodReview("5") EXCEPT !.email = MalformedEmail],
      [GoodReview("5") EXCEPT !.email = Undefined] }

validateFormatReviewFields(fields) ==
    LET rating == ParseInt(fields.rating)
    IN  [title   |-> fields.title,
         content |-> fields.content,
         rating  |-> rating,
         errorData |->
            (IF fields.title = Undefined \/ Len(fields.title) < 5
             THEN {<<"title", "Title must be at least 5 characters">>} ELSE {})
            \cup
            (IF fields.content = Undefined \/ Len(fields.content) < 5
             THEN {<<"content", "Content must be at least 5 characters">>} ELSE {})
            \cup
            (IF rating.nan \/ rating.n = 0 \/ rating.n < 1 \/ rating.n > 5
             THEN {<<"rating", "Rating must be an integer from 1 to 5">>} ELSE {})]

\* the request arrives; the handler validates it and builds newReview (without
\* its date, which no handler reads)
ReviewRequest(p) ==
    /\ pc[p] = "idle"
    /\ UNCHANGED <<dbVars, clock, calc, sortOption>>
    /\ \E id \in IdInputs, body \in ReviewBodies, salt \in Salts :
        LET r == [kind |-> "review", recipe_id |-> id, body |-> body]
            v == validateFormatReviewFields(body)
            userError ==
                IF body.username = Undefined \/ Len(body.username) < 5
                THEN {<<"username", "Username must be at least 5 characters">>} ELSE {}
            emailError ==
                IF validateEmail(body.email) THEN {}
                ELSE {<<"email", "Invalid email address">>}
            errorData == v.errorData \cup userError \cup emailError
        IN  IF ~ObjectIdIsValid(id)
            THEN /\ Finish(p, r, NoLoc, 400, {<<"recipe_id", "Invalid recipe ID">>})
                 /\ UNCHANGED <<appends, overlapped>>
            ELSE IF body.email = Undefined
            THEN \* validateEmail(undefined): email.match throws, the catch block answers
                 /\ Finish(p, r, NoLoc, 500, DatabaseError)
                 /\ UNCHANGED <<appends, overlapped>>
            ELSE IF errorData # {}
            THEN /\ Finish(p, r, NoLoc, 400, errorData)
                 /\ UNCHANGED <<appends, overlapped>>
            ELSE /\ appends < MaxAppends
                 /\ appends' = appends + 1
                 /\ overlapped' =
                        IF \E q \in Procs \ {p} :
                               /\ req[q].kind = "review"
                               /\ req[q].recipe_id = id
                        THEN overlapped \cup {id} ELSE overlapped
                 /\ Await(p, r,
                          [newReview |->
                              [_id      |-> SeedLen + appends + 1,
                               title    |-> v.title,
                               content  |-> v.content,
                               rating   |-> v.rating.n,
                               username |-> body.username,
                               email    |-> hash(body.email, salt)]],
                          "computeAverageRating")

\* computeAverageRating: its findOne and the arithmetic on what it returned
ReviewComputeAverage(p) ==
    /\ pc[p] = "computeAverageRating"
    /\ UNCHANGED <<dbVars, clock, appends, overlapped, calc, sortOption>>
    /\ \/ \* findOne throws
          Finish(p, req[p], loc[p], 500, DatabaseError)
       \/ \* findOne returns null: recipeRecord.reviews throws
          /\ req[p].recipe_id \notin DOMAIN recipes
          /\ Finish(p, req[p], loc[p], 500, DatabaseError)
       \/ /\ req[p].recipe_id \in DOMAIN recipes
          /\ LET recipeRecord ==
                     [reviews |-> ProjectRatings(recipes[req[p].recipe_id].reviews)]
             IN  Await(p, req[p],
                       [newReview |-> loc[p].newReview,
                        recipeRecord |-> recipeRecord,
                        newAverageRating |->
                            computeAverageRating(recipeRecord.reviews,
                                                 loc[p].newReview.rating)],
                       "updateOneReview")

\* updateOne({_id}, {$push: {reviews}, $set: {average_rating}}) and the response
ReviewUpdateOne(p) ==
    /\ pc[p] = "updateOneReview"
    /\ UNCHANGED <<created, clock, favorites, appends, overlapped, calc, sortOption>>
    /\ LET id == req[p].recipe_id
           updated ==
               IF id \in DOMAIN recipes
               THEN [recipes EXCEPT ![id] =
                        PushReviewSetAverage(@, loc[p].newReview, loc[p].newAverageRating)]
               ELSE recipes
       IN  \/ \* the call throws, before or after the update took effect
              /\ recipes' \in {recipes, updated}
              /\ Finish(p, req[p], loc[p], 500, DatabaseError)
           \/ /\ recipes' = updated
              /\ Finish(p, req[p], loc[p], 201, {})

(***************************************************************************)
(* DELETE /recipes/:recipe_id                                              *)
(***************************************************************************)
DeleteRequest(p) ==
    /\ pc[p] = "idle"
    /\ UNCHANGED <<dbVars, clock, appends, overlapped, calc, sortOption>>
    /\ \E id \in IdInputs :
        LET r == [kind |-> "delete", recipe_id |-> id]
        IN  IF ~ObjectIdIsValid(id)
            THEN Finish(p, r, NoLoc, 400, {<<"recipe_id", "Invalid recipe ID">>})
            ELSE Await(p, r, NoLoc, "deleteOne")

\* deleteOne({_id})
DeleteDeleteOne(p) ==
    /\ pc[p] = "deleteOne"
    /\ UNCHANGED <<created, clock, favorites, appends, overlapped, calc, sortOption>>
    /\ LET id == req[p].recipe_id
       IN  \/ /\ recipes' \in {recipes, DeleteById(recipes, id)}
              /\ Finish(p, req[p], loc[p], 500, DatabaseError)
           \/ /\ recipes' = DeleteById(recipes, id)
              /\ Await(p, req[p],
                       [deletedCount |-> IF id \in DOMAIN recipes THEN 1 ELSE 0],
                       "updateManyFavorites")

\* updateMany on favorites with $pull, and the response
DeleteUpdateMany(p) ==
    /\ pc[p] = "updateManyFavorites"
    /\ UNCHANGED <<recipes, created, clock, appends, overlapped, calc, sortOption>>
    /\ LET id == req[p].recipe_id
       IN  \/ /\ favorites' \in {favorites, PullFromAll(favorites, id)}
              /\ Finish(p, req[p], loc[p], 500, DatabaseError)
           \/ /\ favorites' = PullFromAll(favorites, id)
              /\ Finish(p, req[p],
                        [deletedCount |-> loc[p].deletedCount,
                         modifiedCount |->
                            Cardinality({i \in 1..Len(favorites) :
                                            Holds(favorites[i].coffee_recipes, id)})],
                        200, {})

(***************************************************************************)
(* validateFormatRecipeFields                                              *)
(*                                                                         *)
(* A request body is a record of its 17 recipe fields, username and email. *)
(* A text field is a string or Undefined; a field sent as a list is        *)
(* [type, items] with type "array", "string" (anything truthy that is no   *)
(* array) or "undefined"; a reference field is an identifier, MalformedId  *)
(* or UndefinedId.                                                         *)
(***************************************************************************)
UndefinedId == -1

Arr(items) == [type |-> "array", items |-> items]
NotArr     == [type |-> "string", items |-> <<>>]
NoArr      == [type |-> "undefined", items |-> <<>>]

\* JavaScript truthiness of a text field
Truthy(s) == s # Undefined /\ s # ""

\* s.split(' ') on the amount strings the requests use
SplitSpace(s) ==
    CASE s = "3 min"  -> <<"3", "min">>
      [] s = "250 ml" -> <<"250", "ml">>
      [] s = "x min"  -> <<"x", "min">>
      [] s = " min"   -> <<"", "min">>
      [] OTHER        -> <<s>>

\* isNaN on the strings the requests use
NumericStrings == {"3", "250", "15", "93", "", "1", "2", "4", "3.5"}
IsNaN(s) == s \notin NumericStrings

\* Number(s) for the numeric strings the requests use
ToNumber(s) ==
    CASE s = "3" -> 3 [] s = "250" -> 250 [] s = "15" -> 15 [] s = "93" -> 93
      [] s = "1" -> 1 [] s = "2" -> 2 [] s = "4" -> 4
      [] OTHER -> 0

\* validateUrl on the URLs the requests use
validateUrl(url) == url = "https://img.io/v60.png"

\* getRandomImageUrl: one of IMAGE_URLS
getRandomImageUrl == "IMAGE_URLS[random]"

\* the check of a '<num> <unit>' field (totalBrewTime, brewYield, waterAmount)
AmountError(key, label, v) ==
    LET parts == SplitSpace(v)
    IN  IF Len(parts) = 2
        THEN IF parts[1] = "" \/ IsNaN(parts[1])
             THEN {<<key, "Invalid value specified for " \o label>>} ELSE {}
        ELSE {<<key, label \o " is a required field">>}

\* the check of a required text field of at least 5 characters
NameError(key, label, v) ==
    IF Truthy(v)
    THEN IF Len(v) < 5 THEN {<<key, label \o " must be at least 5 characters">>} ELSE {}
    ELSE {<<key, label \o " is a required field">>}

\* the check of a required field that only has to be there
RequiredError(key, label, present) ==
    IF present THEN {} ELSE {<<key, label \o " is a required field">>}

\* the check of a required numeric field (coffeeAmount, waterTemperature)
NumberError(key, label, v) ==
    IF Truthy(v)
    THEN IF IsNaN(v) THEN {<<key, "Invalid value specified for " \o label>>} ELSE {}
    ELSE {<<key, label \o " is a required field">>}

\* the check of an optional list (additionalIngredients, additionalEquipment)
OptionalArrayError(key, label, v) ==
    IF v.type = "string" THEN {<<key, label \o " must be an array">>} ELSE {}

\* does validateFormatRecipeFields throw: split on an absent amount field, or
\* ObjectId on a malformed coffee bean id
validateFormatRecipeFieldsThrows(f) ==
    \/ f.totalBrewTime = Undefined
    \/ f.brewYield = Undefined
    \/ f.waterAmount = Undefined
    \/ /\ f.coffeeBeans.type = "array"
       /\ \E i \in 1..Len(f.coffeeBeans.items) : ~ObjectIdIsValid(f.coffeeBeans.items[i])

\* the errorData of validateFormatRecipeFields (when it does not throw)
RecipeErrorData(f) ==
    (IF Truthy(f.imageUrl) /\ ~validateUrl(f.imageUrl)
     THEN {<<"imageUrl", "Invalid image URL">>} ELSE {})
    \cup NameError("recipeName", "Recipe name", f.recipeName)
    \cup NameError("description", "Description", f.description)
    \cup AmountError("totalBrewTime", "Total Brew Time", f.totalBrewTime)
    \cup AmountError("brewYield", "Brew Yield", f.brewYield)
    \cup RequiredError("brewingMethod", "Brewing Method", f.brewingMethod # UndefinedId)
    \cup (IF f.coffeeBeans.type = "array"
          THEN RequiredError("coffeeBeans", "Coffee Beans", f.coffeeBeans.items # <<>>)
          ELSE {<<"coffeeBeans", "Coffee Beans must be an array">>})
    \cup RequiredError("coffeeRestPeriod", "Coffee Rest Period", Truthy(f.coffeeRestPeriod))
    \cup NumberError("coffeeAmount", "Coffee Amount", f.coffeeAmount)
    \cup RequiredError("grinder", "Grinder", f.grinder # UndefinedId)
    \cup RequiredError("grindSetting", "Grind Setting", Truthy(f.grindSetting))
    \cup AmountError("waterAmount", "Water Amount", f.waterAmount)
    \cup NumberError("waterTemperature", "Water Temperature", f.waterTemperature)
    \cup OptionalArrayError("additionalIngredients", "Additional Ingredients",
                            f.additionalIngredients)
    \cup RequiredError("brewer", "Brewer", f.brewer # UndefinedId)
    \cup OptionalArrayError("additionalEquipment", "Additional Equipment",
                            f.additionalEquipment)
    \cup (IF f.steps.type = "undefined" THEN {<<"steps", "Steps is a required field">>}
          ELSE IF f.steps.type # "array" THEN {<<"steps", "Steps must be an array">>}
          ELSE IF f.steps.items = <<>> THEN {<<"steps", "Steps cannot be an empty array">>}
          ELSE {})

\* the fields of the document the handlers build from the formatted fields
\* (newRecipe and updatedRecipe, without date, user, average_rating, reviews)
RecipeFields(f) ==
    [image_url |-> IF Truthy(f.imageUrl) THEN f.imageUrl ELSE getRandomImageUrl,
     recipe_name |-> f.recipeName,
     description |-> f.description,
     total_brew_time |-> f.totalBrewTime,
     brew_yield |-> f.brewYield,
     brewing_method |-> f.brewingMethod,
     coffee_beans |-> f.coffeeBeans.items,
     coffee_rest_period |-> f.coffeeRestPeriod,
     amount_of_coffee |-> ToNumber(f.coffeeAmount),
     grinder |-> f.grinder,
     grind_setting |-> f.grindSetting,
     amount_of_water |-> f.waterAmount,
     water_temperature |-> ToNumber(f.waterTemperature),
     additional_ingredients |-> f.additionalIngredients.items,
     brewer |-> f.brewer,
     additional_equipment |-> f.additionalEquipment.items,
     steps |-> f.steps.items]

\* does building the document throw: ObjectId on a malformed brewingMethod,
\* grinder or brewer
RecipeFieldsThrows(f) ==
    ~ObjectIdIsValid(f.brewingMethod) \/ ~ObjectIdIsValid(f.grinder)
        \/ ~ObjectIdIsValid(f.brewer)

GoodBody ==
    [imageUrl |-> Undefined, recipeName |-> "Morning V60",
     description |-> "Bright and sweet", totalBrewTime |-> "3 min",
     brewYield |-> "250 ml", brewingMethod |-> 1, coffeeBeans |-> Arr(<<1>>),
     coffeeRestPeriod |-> "1 week", coffeeAmount |-> "15", grinder |-> 1,
     grindSetting |-> "medium", waterAmount |-> "250 ml", waterTemperature |-> "93",
     additionalIngredients |-> NoArr, brewer |-> 1, additionalEquipment |-> NoArr,
     steps |-> Arr(<<"bloom", "pour">>),
     username |-> "barista", email |-> "bob@mail.io"]

\* the request bodies the model sends to create and update
RecipeBodies ==
    { GoodBody,
      [GoodBody EXCEPT !.recipeName = "Iced"],
      [GoodBody EXCEPT !.totalBrewTime = Undefined] }

(***************************************************************************)
(* POST /recipes                                                           *)
(***************************************************************************)
\* the request arrives; the handler validates it and builds newRecipe
CreateRequest(p) ==
    /\ pc[p] = "idle"
    /\ UNCHANGED <<dbVars, appends, overlapped, calc, sortOption>>
    /\ \E body \in RecipeBodies, salt \in Salts :
        LET r == [kind |-> "create", body |-> body]
            userError ==
                IF Truthy(body.username)
                THEN IF Len(body.username) < 5
                     THEN {<<"username", "Username must be at least 5 characters">>}
                     ELSE {}
                ELSE {<<"username", "Username is a required field">>}
            emailError ==
                IF Truthy(body.email)
                THEN IF validateEmail(body.email) THEN {}
                     ELSE {<<"email", "Invalid email address">>}
                ELSE {<<"email", "Email is a required field">>}
        IN  IF validateFormatRecipeFieldsThrows(body)
            THEN Finish(p, r, NoLoc, 500, DatabaseError) /\ UNCHANGED clock
            ELSE IF RecipeErrorData(body) \cup userError \cup emailError # {}
            THEN /\ Finish(p, r, NoLoc, 400,
                           RecipeErrorData(body) \cup userError \cup emailError)
                 /\ UNCHANGED clock
            ELSE IF RecipeFieldsThrows(body)
            THEN Finish(p, r, NoLoc, 500, DatabaseError) /\ UNCHANGED clock
            ELSE /\ clock < 1 + MaxWrites
                 /\ created + Cardinality({q \in Procs : pc[q] = "insertOneRecipe"})
                        < MaxRecipes
                 /\ clock' = clock + 1
                 /\ Await(p, r,
                          [newRecipe |->
                              [fields |-> RecipeFields(body),
                               user |-> [username |-> body.username,
                                         email |-> hash(body.email, salt)],
                               date |-> clock + 1,
                               average_rating |-> 0,
                               reviews |-> <<>>]],
                          "insertOneRecipe")

\* insertOne(newRecipe) and the response
CreateInsertOne(p) ==
    /\ pc[p] = "insertOneRecipe"
    /\ UNCHANGED <<clock, favorites, appends, overlapped, calc, sortOption>>
    /\ LET inserted == InsertAt(recipes, created + 1, loc[p].newRecipe)
       IN  \/ /\ \/ recipes' = recipes /\ created' = created
                 \/ recipes' = inserted /\ created' = created + 1
              /\ Finish(p, req[p], loc[p], 500, DatabaseError)
           \/ /\ recipes' = inserted
              /\ created' = created + 1
              /\ Finish(p, req[p], loc[p], 201, {})

(***************************************************************************)
(* PUT /recipes/:recipe_id                                                 *)
(***************************************************************************)
\* an update that replaces the whole document: the reviews and the average go
ReplaceRecipe(doc, updatedRecipe) ==
    [doc EXCEPT !.fields = updatedRecipe.fields, !.date = updatedRecipe.date,
                !.reviews = <<>>, !.average_rating = 0]

\* {$set: updatedRecipe} applied to one recipe
SetRecipeFields(doc, updatedRecipe) ==
    [doc EXCEPT !.fields = updatedRecipe.fields, !.date = updatedRecipe.date]

\* the request arrives; the handler validates it and builds updatedRecipe
UpdateRequest(p) ==
    /\ pc[p] = "idle"
    /\ UNCHANGED <<dbVars, appends, overlapped, calc, sortOption>>
    /\ \E id \in IdInputs, body \in RecipeBodies :
        LET r == [kind |-> "update", recipe_id |-> id, body |-> body]
        IN  IF ~ObjectIdIsValid(id)
            THEN /\ Finish(p, r, NoLoc, 400, {<<"recipe_id", "Invalid recipe ID">>})
                 /\ UNCHANGED clock
            ELSE IF validateFormatRecipeFieldsThrows(body)
            THEN Finish(p, r, NoLoc, 500, DatabaseError) /\ UNCHANGED clock
            ELSE IF RecipeErrorData(body) # {}
            THEN Finish(p, r, NoLoc, 400, RecipeErrorData(body)) /\ UNCHANGED clock
            ELSE IF RecipeFieldsThrows(body)
            THEN Finish(p, r, NoLoc, 500, DatabaseError) /\ UNCHANGED clock
            ELSE /\ clock < 1 + MaxWrites
                 /\ clock' = clock + 1
                 /\ Await(p, r,
                          [updatedRecipe |->
                              [fields |-> RecipeFields(body), date |-> clock + 1]],
                          "updateOneRecipe")

\* updateOne({_id}, {$set: updatedRecipe}) and the response
UpdateUpdateOne(p) ==
    /\ pc[p] = "updateOneRecipe"
    /\ UNCHANGED <<created, clock, favorites, appends, overlapped, calc, sortOption>>
    /\ LET id == req[p].recipe_id
           updated ==
               IF id \in DOMAIN recipes
               THEN [recipes EXCEPT ![id] = SetRecipeFields(@, loc[p].updatedRecipe)]
               ELSE recipes
       IN  \/ /\ recipes' \in {recipes, updated}
              /\ Finish(p, req[p], loc[p], 500, DatabaseError)
           \/ /\ recipes' = updated
              /\ Finish(p, req[p], loc[p], 200, {})

(***************************************************************************)
(* POST /favorites/:email                                                  *)
(***************************************************************************)
\* a findOne that finds no record
FindNothing(favs, email) == 0

\* the position of the first favorites record of email (findOne({user_email})),
\* 0 for none
FindByEmail(favs, email) ==
    IF \E i \in 1..Len(favs) : favs[i].user_email = email
    THEN CHOOSE i \in 1..Len(favs) :
            /\ favs[i].user_email = email
            /\ \A j \in 1..(i - 1) : favs[j].user_email # email
    ELSE 0

\* the position of the first favorites record of email that holds id
\* (findOne({user_email, coffee_recipes: {$in: [id]}})), 0 for none
FindByEmailHolding(favs, email, id) ==
    IF \E i \in 1..Len(favs) :
          favs[i].user_email = email /\ Holds(favs[i].coffee_recipes, id)
    THEN CHOOSE i \in 1..Len(favs) :
            /\ favs[i].user_email = email /\ Holds(favs[i].coffee_recipes, id)
            /\ \A j \in 1..(i - 1) :
                  ~(favs[j].user_email = email /\ Holds(favs[j].coffee_recipes, id))
    ELSE 0

\* {$push: {coffee_recipes: id}} on the record at position idx
PushFavorite(favs, idx, id) ==
    [favs EXCEPT ![idx].coffee_recipes = Append(@, id)]

\* insertOne({user_email, coffee_recipes: [id]})
InsertFavorite(favs, email, id) ==
    Append(favs, [user_email |-> email, coffee_recipes |-> <<id>>])

\* {$pull: {coffee_recipes: id}} on the record at position idx; idx = 0 when
\* the filter of updateOne matches no record
PullFavorite(favs, idx, id) ==
    IF idx = 0 THEN favs
    ELSE [favs EXCEPT ![idx].coffee_recipes = Pull(@, id)]

\* how many recipe references the collection holds
RECURSIVE FavEntries(_)
FavEntries(favs) ==
    IF favs = <<>> THEN 0
    ELSE Len(Head(favs).coffee_recipes) + FavEntries(Tail(favs))

\* the recipeId of the body and the :email of the path of the favorites
\* requests the model sends
FavoriteInputs ==
    { <<1, "ann@mail.io">>, <<1, "bob@mail.io">>, <<2, "ann@mail.io">>,
      <<MalformedId, "ann@mail.io">>, <<UndefinedId, "ann@mail.io">>,
      <<1, MalformedEmail>> }

\* the checks both favorites handlers make before they touch storage
FavoriteInputError(id, email) ==
    IF id = UndefinedId \/ ~ObjectIdIsValid(id)
    THEN {<<"recipeId", "Invalid recipe ID">>}
    ELSE IF ~validateEmail(email)
    THEN {<<"email", "Invalid email address">>}
    ELSE {}

\* does this add come straight after an add of the same recipe for the same
\* email that succeeded and ran alone: the code of that response, else 0
RepeatsAdd(p, email, id) ==
    IF /\ \A q \in Procs : pc[q] = "idle"
       /\ lastResponse.req.kind = "favAdd"
       /\ lastResponse.alone
       /\ lastResponse.code \in {200, 201}
       /\ lastResponse.req.email = email
       /\ lastResponse.req.recipeId = id
    THEN lastResponse.code
    ELSE 0

FavAddRequest(p) ==
    /\ pc[p] = "idle"
    /\ UNCHANGED <<dbVars, clock, appends, overlapped, calc, sortOption>>
    /\ \E input \in FavoriteInputs :
        LET id == input[1]
            email == input[2]
            r == [kind |-> "favAdd", email |-> email, recipeId |-> id]
        IN  IF FavoriteInputError(id, email) # {}
            THEN Finish(p, r, NoLoc, 400, FavoriteInputError(id, email))
            ELSE /\ FavEntries(favorites)
                        + Cardinality({q \in Procs : req[q].kind = "favAdd"})
                      < MaxFavEntries
                 /\ Await(p, r, [favoriteRecord |-> 0,
                                 repeats |-> RepeatsAdd(p, email, id)],
                          "findOneFavoriteRecord")

\* findOne({user_email: email})
FavAddFindRecord(p) ==
    /\ pc[p] = "findOneFavoriteRecord"
    /\ UNCHANGED <<dbVars, clock, appends, overlapped, calc, sortOption>>
    /\ \/ Finish(p, req[p], loc[p], 500, DatabaseError)
       \/ LET idx == FindByEmail(favorites, req[p].email)
          IN  Await(p, req[p], [loc[p] EXCEPT !.favoriteRecord = idx],
                    IF idx # 0 THEN "getRecordByIdRecipe" ELSE "insertOneFavorite")

\* getRecordById('recipes', recipeId)
FavAddGetRecipe(p) ==
    /\ pc[p] = "getRecordByIdRecipe"
    /\ UNCHANGED <<dbVars, clock, appends, overlapped, calc, sortOption>>
    /\ \/ Finish(p, req[p], loc[p], 500, DatabaseError)
       \/ IF req[p].recipeId \in DOMAIN recipes
          THEN Await(p, req[p], loc[p], "findOneFavorited")
          ELSE Finish(p, req[p], loc[p], 400, {<<"recipeId", "Recipe does not exist">>})

\* findOne({_id: favoriteRecord._id, coffee_recipes: {$in: [recipeId]}})
FavAddFindDuplicate(p) ==
    /\ pc[p] = "findOneFavorited"
    /\ UNCHANGED <<dbVars, clock, appends, overlapped, calc, sortOption>>
    /\ \/ Finish(p, req[p], loc[p], 500, DatabaseError)
       \/ IF Holds(favorites[loc[p].favoriteRecord].coffee_recipes, req[p].recipeId)
          THEN Finish(p, req[p], loc[p], 400,
                      {<<"recipeId", "Recipe ID is already in favorites collection">>})
          ELSE Await(p, req[p], loc[p], "updateOnePush")

\* updateOne({_id: favoriteRecord._id}, {$push: {coffee_recipes}}) and the response
FavAddPush(p) ==
    /\ pc[p] = "updateOnePush"
    /\ UNCHANGED <<recipes, created, clock, appends, overlapped, calc, sortOption>>
    /\ LET pushed == PushFavorite(favorites, loc[p].favoriteRecord, req[p].recipeId)
       IN  \/ /\ favorites' \in {favorites, pushed}
              /\ Finish(p, req[p], loc[p], 500, DatabaseError)
           \/ /\ favorites' = pushed
              /\ Finish(p, req[p], loc[p], 200, {})

\* insertOne(newFavoriteRecord) and the response
FavAddInsert(p) ==
    /\ pc[p] = "insertOneFavorite"
    /\ UNCHANGED <<recipes, created, clock, appends, overlapped, calc, sortOption>>
    /\ LET inserted == InsertFavorite(favorites, req[p].email, req[p].recipeId)
       IN  \/ /\ favorites' \in {favorites, inserted}
              /\ Finish(p, req[p], loc[p], 500, DatabaseError)
           \/ /\ favorites' = inserted
              /\ Finish(p, req[p], loc[p], 201, {})

(***************************************************************************)
(* DELETE /favorites/:email                                                *)
(***************************************************************************)
FavRemoveRequest(p) ==
    /\ pc[p] = "idle"
    /\ UNCHANGED <<dbVars, clock, appends, overlapped, calc, sortOption>>
    /\ \E input \in FavoriteInputs :
        LET id == input[1]
            email == input[2]
            r == [kind |-> "favRemove", email |-> email, recipeId |-> id]
        IN  IF FavoriteInputError(id, email) # {}
            THEN Finish(p, r, NoLoc, 400, FavoriteInputError(id, email))
            ELSE Await(p, r, NoLoc, "findOneHolding")

\* findOne({user_email, coffee_recipes: {$in: [recipeId]}})
FavRemoveFind(p) ==
    /\ pc[p] = "findOneHolding"
    /\ UNCHANGED <<dbVars, clock, appends, overlapped, calc, sortOption>>
    /\ \/ Finish(p, req[p], loc[p], 500, DatabaseError)
       \/ IF FindByEmailHolding(favorites, req[p].email, req[p].recipeId) # 0
          THEN Await(p, req[p], loc[p], "updateOnePull")
          ELSE Finish(p, req[p], loc[p], 400,
                      {<<"recipeId", "Recipe ID does not exist in favorites collection">>})

\* updateOne({user_email, coffee_recipes: {$in}}, {$pull: {coffee_recipes}}) and
\* the response
FavRemovePull(p) ==
    /\ pc[p] = "updateOnePull"
    /\ UNCHANGED <<recipes, created, clock, appends, overlapped, calc, sortOption>>
    /\ LET pulled ==
               PullFavorite(favorites,
                            FindByEmailHolding(favorites, req[p].email, req[p].recipeId),
                            req[p].recipeId)
       IN  \/ /\ favorites' \in {favorites, pulled}
              /\ Finish(p, req[p], loc[p], 500, DatabaseError)
           \/ /\ favorites' = pulled
              /\ Finish(p, req[p], loc[p], 200, {})

(***************************************************************************)
(* GET /recipes                                                            *)
(*                                                                         *)
(* A query is the record of the nine query-string parameters.  An absent   *)
(* text parameter is Undefined, an absent id parameter UndefinedId, and    *)
(* beans is the list beans.split(',') gives, empty when absent.            *)
(***************************************************************************)
\* the characters of the recipe names and name parameters the model uses
Chars(s) ==
    CASE s = "House V60" -> <<"H", "o", "u", "s", "e", " ", "V", "6", "0">>
      [] s = "Iced V90"  -> <<"I", "c", "e", "d", " ", "V", "9", "0">>
      [] s = "Press pot" -> <<"P", "r", "e", "s", "s", " ", "p", "o", "t">>
      [] s = "Cold V60"  -> <<"C", "o", "l", "d", " ", "V", "6", "0">>
      [] s = "v60"       -> <<"v", "6", "0">>
      [] s = "v.0"       -> <<"v", ".", "0">>
      [] OTHER           -> <<>>

UpperCase == <<"C", "H", "I", "P", "V">>
LowerCase == <<"c", "h", "i", "p", "v">>

\* a character under the option 'i'
Lower(c) ==
    IF \E i \in 1..Len(UpperCase) : UpperCase[i] = c
    THEN LowerCase[CHOOSE i \in 1..Len(UpperCase) : UpperCase[i] = c]
    ELSE c

\* {$regex: pattern, $options: 'i'}: the pattern matches somewhere in text; a
\* pattern character stands for itself, except '.', which stands for any
\* character
RegexMatches(pattern, text) ==
    \E start \in 0..(Len(text) - Len(pattern)) :
        \A j \in 1..Len(pattern) :
            \/ pattern[j] = "."
            \/ Lower(pattern[j]) = Lower(text[start + j])

\* Number(rating) in tenths, for the numeric rating parameters the model uses
RatingTenths(s) ==
    CASE s = "4" -> 40 [] s = "3.5" -> 35 [] s = "1" -> 10 [] s = "2" -> 20
      [] OTHER -> 0

NoQuery ==
    [name |-> Undefined, beans |-> <<>>, grinder |-> UndefinedId,
     method |-> UndefinedId, brewer |-> UndefinedId, rating |-> Undefined,
     page |-> Undefined, limit |-> Undefined, sort |-> Undefined]

\* the queries the model sends
ListQueries ==
    { NoQuery,
      [NoQuery EXCEPT !.name = "v60"],
      [NoQuery EXCEPT !.name = "v.0"],
      [NoQuery EXCEPT !.beans = <<1, 2>>],
      [NoQuery EXCEPT !.beans = <<1>>, !.grinder = 1, !.rating = "4"],
      [NoQuery EXCEPT !.method = 2],
      [NoQuery EXCEPT !.brewer = 2, !.rating = "3.5"],
      [NoQuery EXCEPT !.rating = "abc"],
      [NoQuery EXCEPT !.sort = "popularity"],
      [NoQuery EXCEPT !.rating = "abc", !.sort = "popularity"],
      [NoQuery EXCEPT !.grinder = MalformedId],
      [NoQuery EXCEPT !.beans = <<1, MalformedId>>],
      [NoQuery EXCEPT !.rating = "abc", !.method = MalformedId],
      [NoQuery EXCEPT !.brewer = MalformedId],
      [NoQuery EXCEPT !.limit = "2"],
      [NoQuery EXCEPT !.limit = "2", !.page = "2"],
      [NoQuery EXCEPT !.limit = "2", !.page = "3"],
      [NoQuery EXCEPT !.limit = "3", !.sort = "rating"],
      [NoQuery EXCEPT !.sort = "rating", !.page = "2"],
      [NoQuery EXCEPT !.sort = "date", !.limit = "1", !.page = "2"] }

\* does building the criteria throw: ObjectId on a malformed id of beans,
\* grinder, method or brewer (outside the handler's try block)
CriteriaThrows(q) ==
    \/ \E i \in 1..Len(q.beans) : ~ObjectIdIsValid(q.beans[i])
    \/ q.grinder = MalformedId
    \/ q.method = MalformedId
    \/ q.brewer = MalformedId

\* the criteria object; a key the handler does not set is Undefined / <<>> /
\* UndefinedId here, and average_rating.$gte is -1 (every rating passes)
Criteria(q) ==
    [recipe_name    |-> IF Truthy(q.name) THEN q.name ELSE Undefined,
     coffee_beans   |-> q.beans,
     grinder        |-> q.grinder,
     brewing_method |-> q.method,
     brewer         |-> q.brewer,
     average_rating |-> IF Truthy(q.rating) /\ ~IsNaN(q.rating)
                        THEN RatingTenths(q.rating) ELSE -1]

\* the errorData of the rating and sort checks
QueryErrorData(q) ==
    (IF Truthy(q.rating) /\ IsNaN(q.rating)
     THEN {<<"rating", "Invalid value specified for rating">>} ELSE {})
    \cup
    (IF Truthy(q.sort) /\ q.sort \notin {"date", "rating"}
     THEN {<<"sort", "Invalid value specified for sort">>} ELSE {})

\* does a document match the criteria (countDocuments and find)
MatchesCriteria(doc, c) ==
    /\ c.recipe_name # Undefined
          => RegexMatches(Chars(c.recipe_name), Chars(doc.fields.recipe_name))
    /\ \A i \in 1..Len(c.coffee_beans) : Holds(doc.fields.coffee_beans, c.coffee_beans[i])
    /\ c.grinder # UndefinedId => doc.fields.grinder = c.grinder
    /\ c.brewing_method # UndefinedId => doc.fields.brewing_method = c.brewing_method
    /\ c.brewer # UndefinedId => doc.fields.brewer = c.brewer
    /\ doc.average_rating >= c.average_rating

Matching(coll, c) == {id \in DOMAIN coll : MatchesCriteria(coll[id], c)}

\* the orders .sort({key: -1}) can return the matching documents in: key
\* descending, documents with equal keys in any order
SortKey(doc, key) == IF key = "date" THEN doc.date ELSE doc.average_rating

SortedOrders(coll, ids, key) ==
    { order \in [1..Cardinality(ids) -> ids] :
        /\ \A i, j \in 1..Cardinality(ids) : i # j => order[i] # order[j]
        /\ \A i, j \in 1..Cardinality(ids) :
              i < j => SortKey(coll[order[i]], key) >= SortKey(coll[order[j]], key) }

\* .limit(limit) alone: the query without its skip
LimitOnly(order, limit, skip) ==
    [i \in 1..(IF Len(order) < limit THEN Len(order) ELSE limit) |-> order[i]]

\* .limit(limit).skip(skip) on an order
LimitSkip(order, limit, skip) ==
    [i \in 1..(IF Len(order) - skip < 0 THEN 0
               ELSE IF Len(order) - skip < limit THEN Len(order) - skip
               ELSE limit) |-> order[skip + i]]

\* Math.ceil(n / d)
Ceil(n, d) == (n + d - 1) \div d

\* the beans, grinders, brewers and methods collections, which no endpoint
\* writes: each holds the documents of the ids 1..NumReferences
ReferenceIds == 1..NumReferences

\* what findOne answers when no document matches
Null == [collection |-> "null", _id |-> 0]

\* a lookup that finds a document for every id
ReferenceAlways(collection, id) == [collection |-> collection, _id |-> id]

\* getRecordById on the beans, grinders, brewers and methods collections: the
\* document of that _id, or null
getReference(collection, id) ==
    IF id \in ReferenceIds THEN [collection |-> collection, _id |-> id] ELSE Null

\* populateRecipeFields, on the fields of a recipe
populateRecipeFields(fields) ==
    [fields EXCEPT
        !.coffee_beans = [i \in 1..Len(fields.coffee_beans) |->
                             getReference("beans", fields.coffee_beans[i])],
        !.grinder = IF fields.grinder = UndefinedId THEN fields.grinder
                    ELSE getReference("grinders", fields.grinder),
        !.brewer = getReference("brewers", fields.brewer),
        !.brewing_method = getReference("methods", fields.brewing_method)]

\* a recipe as GET /recipes returns it: projection {'user.email': 0, reviews: 0},
\* then populated
ListedRecipe(coll, id) ==
    [_id |-> id,
     fields |-> populateRecipeFields(coll[id].fields),
     user |-> [username |-> coll[id].user.username],
     date |-> coll[id].date,
     average_rating |-> coll[id].average_rating]

\* the sortOption a query assigns; an invalid sort leaves the global as it is
AssignedSortOption(q, current) ==
    IF ~Truthy(q.sort) \/ q.sort = "date" THEN "date"
    ELSE IF q.sort = "rating" THEN "average_rating"
    ELSE current

\* the request arrives; the handler builds the criteria, validates rating and
\* sort and assigns sortOption
ListRequest(p) ==
    /\ pc[p] = "idle"
    /\ UNCHANGED <<dbVars, clock, appends, overlapped, calc>>
    /\ \E q \in ListQueries :
        LET r == [kind |-> "list", query |-> q]
        IN  IF CriteriaThrows(q)
            THEN \* the async handler rejects outside its try block: no response
                 /\ Finish(p, r, NoLoc, 0, {})
                 /\ UNCHANGED sortOption
            ELSE /\ sortOption' = AssignedSortOption(q, sortOption)
                 /\ IF QueryErrorData(q) # {}
                    THEN Finish(p, r, NoLoc, 400, QueryErrorData(q))
                    ELSE Await(p, r,
                               [criteria |-> Criteria(q),
                                page |-> IF Truthy(q.page) THEN ToNumber(q.page) ELSE 1,
                                limit |-> IF Truthy(q.limit) THEN ParseInt(q.limit).n
                                          ELSE 10,
                                totalCount |-> 0,
                                totalPages |-> 0,
                                recipes |-> <<>>],
                               "countDocuments")

\* countDocuments(criteria), and totalPages
ListCount(p) ==
    /\ pc[p] = "countDocuments"
    /\ UNCHANGED <<dbVars, clock, appends, overlapped, calc, sortOption>>
    /\ \/ Finish(p, req[p], loc[p], 500, DatabaseError)
       \/ LET totalCount == Cardinality(Matching(recipes, loc[p].criteria))
          IN  Await(p, req[p],
                    [loc[p] EXCEPT !.totalCount = totalCount,
                                   !.totalPages = Ceil(totalCount, 10)],
                    "findRecipes")

\* find(criteria).sort(sortOption).limit(limit).skip((page - 1) * limit), the
\* populateRecipeFields loop and the response
ListFind(p) ==
    /\ pc[p] = "findRecipes"
    /\ UNCHANGED <<dbVars, clock, appends, overlapped, calc, sortOption>>
    /\ \/ Finish(p, req[p], loc[p], 500, DatabaseError)
       \/ \E order \in SortedOrders(recipes, Matching(recipes, loc[p].criteria),
                                    sortOption) :
            LET found == LimitSkip(order, loc[p].limit,
                                   (loc[p].page - 1) * loc[p].limit)
            IN  Finish(p, req[p],
                       [loc[p] EXCEPT !.recipes =
                           [i \in 1..Len(found) |-> ListedRecipe(recipes, found[i])]],
                       200, {})

(***************************************************************************)
(* GET /favorites/:email                                                   *)
(***************************************************************************)
\* the whole list: a slice that ignores its bounds
SliceAll(list, start, end) == list

\* Array.prototype.slice(start, end)
Slice(list, start, end) ==
    LET from == IF start < 0 THEN (IF Len(list) + start < 0 THEN 0 ELSE Len(list) + start)
                ELSE IF start > Len(list) THEN Len(list) ELSE start
        to   == IF end < 0 THEN (IF Len(list) + end < 0 THEN 0 ELSE Len(list) + end)
                ELSE IF end > Len(list) THEN Len(list) ELSE end
    IN  [i \in 1..(IF to > from THEN to - from ELSE 0) |-> list[from + i]]

\* a recipe as getRecordById returns it (no projection), then populated
PopulatedRecipe(coll, id) ==
    [_id |-> id,
     fields |-> populateRecipeFields(coll[id].fields),
     user |-> coll[id].user,
     date |-> coll[id].date,
     average_rating |-> coll[id].average_rating,
     reviews |-> coll[id].reviews]

\* the :email of the path, and the page and limit of the query string, of the
\* requests the model sends
FavListInputs ==
    {<<"ann@mail.io", Undefined, Undefined>>,
     <<"ann@mail.io", "2", Undefined>>,
     <<"ann@mail.io", "2", "5">>,
     <<"ann@mail.io", "3", Undefined>>,
     <<"bob@mail.io", Undefined, Undefined>>,
     <<MalformedEmail, Undefined, Undefined>>}

\* the response data of a listing, once every recipe is populated
FavListData(l) ==
    [l EXCEPT !.result = Slice(l.recipes, (l.page - 1) * 10, l.page * 10),
              !.count = Len(l.recipes),
              !.pages = Ceil(Len(l.recipes), 10)]

FavListRequest(p) ==
    /\ pc[p] = "idle"
    /\ UNCHANGED <<dbVars, clock, appends, overlapped, calc, sortOption>>
    /\ \E input \in FavListInputs :
        LET r == [kind |-> "favList", email |-> input[1], page |-> input[2],
                  limit |-> input[3]]
            parsed == ParseInt(IF input[2] = Undefined THEN "" ELSE input[2])
        IN  IF ~validateEmail(input[1])
            THEN Finish(p, r, NoLoc, 400, {<<"email", "Invalid email address">>})
            ELSE Await(p, r,
                       [page |-> IF parsed.nan \/ parsed.n = 0 THEN 1 ELSE parsed.n,
                        found |-> FALSE, coffee_recipes |-> <<>>, recipes |-> <<>>,
                        result |-> <<>>, count |-> 0, pages |-> 0],
                       "findOneFavorites")

\* findOne({user_email}, {projection: {coffee_recipes: 1}})
FavListFind(p) ==
    /\ pc[p] = "findOneFavorites"
    /\ UNCHANGED <<dbVars, clock, appends, overlapped, calc, sortOption>>
    /\ \/ Finish(p, req[p], loc[p], 500, DatabaseError)
       \/ LET idx == FindByEmail(favorites, req[p].email)
          IN  IF idx = 0
              THEN \* no record: {result: null, pages: 1}
                   Finish(p, req[p], [loc[p] EXCEPT !.pages = 1], 200, {})
              ELSE LET l == [loc[p] EXCEPT !.found = TRUE,
                                           !.coffee_recipes = favorites[idx].coffee_recipes]
                   IN  IF l.coffee_recipes = <<>>
                       THEN Finish(p, req[p], FavListData(l), 200, {})
                       ELSE Await(p, req[p], l, "getRecordByIdFavorite")

\* one turn of the loop: getRecordById('recipes', recipeId) and
\* populateRecipeFields; after the last turn, the response
FavListPopulate(p) ==
    /\ pc[p] = "getRecordByIdFavorite"
    /\ UNCHANGED <<dbVars, clock, appends, overlapped, calc, sortOption>>
    /\ LET recipeId == loc[p].coffee_recipes[Len(loc[p].recipes) + 1]
       IN  \/ Finish(p, req[p], loc[p], 500, DatabaseError)
           \/ IF recipeId \notin DOMAIN recipes
              THEN \* populateRecipeFields(null) throws
                   Finish(p, req[p], loc[p], 500, DatabaseError)
              ELSE LET l == [loc[p] EXCEPT !.recipes =
                                 Append(@, PopulatedRecipe(recipes, recipeId))]
                   IN  IF Len(l.recipes) = Len(l.coffee_recipes)
                       THEN Finish(p, req[p], FavListData(l), 200, {})
                       ELSE Await(p, req[p], l, "getRecordByIdFavorite")

(***************************************************************************)
(* GET /recipes/:recipe_id and POST /recipes/:recipe_id/access             *)
(***************************************************************************)
GetRequest(p) ==
    /\ pc[p] = "idle"
    /\ UNCHANGED <<dbVars, clock, appends, overlapped, calc, sortOption>>
    /\ \E id \in IdInputs :
        LET r == [kind |-> "get", recipe_id |-> id]
        IN  IF ~ObjectIdIsValid(id)
            THEN Finish(p, r, NoLoc, 400, {<<"recipe_id", "Invalid recipe ID">>})
            ELSE Await(p, r, NoLoc, "getRecordByIdGet")

\* getRecordById('recipes', recipeId)
GetGetRecord(p) ==
    /\ pc[p] = "getRecordByIdGet"
    /\ UNCHANGED <<dbVars, clock, appends, overlapped, calc, sortOption>>
    /\ \/ Finish(p, req[p], loc[p], 500, DatabaseError)
       \/ IF req[p].recipe_id \in DOMAIN recipes
          THEN Await(p, req[p], [recipeRecord |-> req[p].recipe_id], "populateRecipeFields")
          ELSE Finish(p, req[p], loc[p], 400, {<<"id", "Invalid coffee recipe ID">>})

\* populateRecipeFields(recipeRecord), and the response
GetPopulate(p) ==
    /\ pc[p] = "populateRecipeFields"
    /\ UNCHANGED <<dbVars, clock, appends, overlapped, calc, sortOption>>
    /\ \/ Finish(p, req[p], loc[p], 500, DatabaseError)
       \/ Finish(p, req[p], loc[p], 200, {})

\* req.body.email of the access requests
AccessEmails == WellFormedEmails \cup {MalformedEmail, Undefined}

AccessRequest(p) ==
    /\ pc[p] = "idle"
    /\ UNCHANGED <<dbVars, clock, appends, overlapped, calc, sortOption>>
    /\ \E id \in IdInputs, email \in AccessEmails :
        LET r == [kind |-> "access", recipe_id |-> id, email |-> email]
        IN  IF ~ObjectIdIsValid(id)
            THEN Finish(p, r, NoLoc, 400, {<<"recipe_id", "Invalid recipe ID">>})
            ELSE Await(p, r, NoLoc, "getRecordByIdAccess")

\* getRecordById('recipes', recipeId), recipeRecord.user.email, and the check of
\* req.body.email
AccessGetRecord(p) ==
    /\ pc[p] = "getRecordByIdAccess"
    /\ UNCHANGED <<dbVars, clock, appends, overlapped, calc, sortOption>>
    /\ \/ Finish(p, req[p], loc[p], 500, DatabaseError)
       \/ IF req[p].recipe_id \notin DOMAIN recipes
          THEN \* recipeRecord is null: recipeRecord.user throws
               Finish(p, req[p], loc[p], 500, DatabaseError)
          ELSE IF req[p].email = Undefined \/ ~validateEmail(req[p].email)
          THEN Finish(p, req[p], loc[p], 400, {<<"email", "Invalid email address">>})
          ELSE Await(p, req[p], [hash |-> recipes[req[p].recipe_id].user.email,
                                 verified |-> FALSE],
                     "compareHash")

\* BcryptUtil.compareHash(email, hash), and the response {result: verified}
AccessCompare(p) ==
    /\ pc[p] = "compareHash"
    /\ UNCHANGED <<dbVars, clock, appends, overlapped, calc, sortOption>>
    /\ Finish(p, req[p],
              [loc[p] EXCEPT !.verified = compareHash(req[p].email, loc[p].hash)],
              200, {})

(***************************************************************************)
(* GET /beans, /grinders, /brewers, /methods and GET /<collection>/:id      *)
(***************************************************************************)
RefCollections == {"beans", "grinders", "brewers", "methods"}

\* the ids of the requests by id: the stored ones, one that is well-formed and
\* stored nowhere, and a malformed one
RefIdInputs == ReferenceIds \cup {NumReferences + 1, MalformedId}

\* the key and the message of the 400 for a malformed id
RefIdError(collection) ==
    CASE collection = "beans"    -> <<"bean_id", "Invalid coffee bean ID">>
      [] collection = "grinders" -> <<"grinder_id", "Invalid coffee grinder ID">>
      [] collection = "brewers"  -> <<"brewer_id", "Invalid coffee brewer ID">>
      [] collection = "methods"  -> <<"method_id", "Invalid coffee method ID">>

\* the message of the 400 for an id that matches no document
RefNotFound(collection) ==
    CASE collection = "beans"    -> <<"id", "Invalid coffee bean ID">>
      [] collection = "grinders" -> <<"id", "Invalid coffee grinder ID">>
      [] collection = "brewers"  -> <<"id", "Invalid coffee brewer ID">>
      [] collection = "methods"  -> <<"id", "Invalid brewing method ID">>

RefRequest(p) ==
    /\ pc[p] = "idle"
    /\ UNCHANGED <<dbVars, clock, appends, overlapped, calc, sortOption>>
    /\ \E collection \in RefCollections, id \in RefIdInputs :
        LET r == [kind |-> "reference", collection |-> collection, recipe_id |-> id]
        IN  IF ~ObjectIdIsValid(id)
            THEN Finish(p, r, NoLoc, 400, {RefIdError(collection)})
            ELSE Await(p, r, NoLoc, "getRecordByIdReference")

\* getRecordById(collection, id), and the response
RefGetRecord(p) ==
    /\ pc[p] = "getRecordByIdReference"
    /\ UNCHANGED <<dbVars, clock, appends, overlapped, calc, sortOption>>
    /\ \/ Finish(p, req[p], loc[p], 500, DatabaseError)
       \/ LET record == getReference(req[p].collection, req[p].recipe_id)
          IN  IF record # Null
              THEN Finish(p, req[p], [record |-> record], 200, {})
              ELSE Finish(p, req[p], loc[p], 400, {RefNotFound(req[p].collection)})

RefListRequest(p) ==
    /\ pc[p] = "idle"
    /\ UNCHANGED <<dbVars, clock, appends, overlapped, calc, sortOption>>
    /\ \E collection \in RefCollections :
          Await(p, [kind |-> "references", collection |-> collection], NoLoc,
                "findReferences")

\* find({}).toArray(), and the response
RefListFind(p) ==
    /\ pc[p] = "findReferences"
    /\ UNCHANGED <<dbVars, clock, appends, overlapped, calc, sortOption>>
    /\ \/ Finish(p, req[p], loc[p], 500, DatabaseError)
       \/ Finish(p, req[p],
                 [records |-> {getReference(req[p].collection, id) : id \in ReferenceIds}],
                 200, {})

(***************************************************************************)
(* Initial states                                                          *)
(***************************************************************************)
SeedFields == RecipeFields([GoodBody EXCEPT !.recipeName = "House V60"])
SeedUser == [username |-> "barista", email |-> hash("bob@mail.io", 1)]

SeedReview(i, rating) ==
    [_id |-> i, title |-> "Daily cup", content |-> "Works every day",
     rating |-> rating, username |-> "regular", email |-> hash("ann@mail.io", 1)]

\* the reviews of the recipe the server starts with: SeedLen reviews rated 2
SeedReviews == [i \in 1..SeedLen |-> SeedReview(i, 2)]

\* a recipe as the handlers leave it after its reviews were appended one
\* after the other
SeedRecipe(reviews) ==
    [fields |-> SeedFields,
     user |-> SeedUser,
     date |-> 1,
     average_rating |->
        IF reviews = <<>> THEN 0
        ELSE computeAverageRating(
                 ProjectRatings(SubSeq(reviews, 1, Len(reviews) - 1)),
                 reviews[Len(reviews)].rating),
     reviews |-> reviews]

IdleSlots ==
    /\ pc = [p \in Procs |-> "idle"]
    /\ req = [p \in Procs |-> NoReq]
    /\ loc = [p \in Procs |-> NoLoc]
    /\ lastResponse = NoResponse
    /\ appends = 0
    /\ solo = 0
    /\ overlapped = {}

\* the global before the first GET /recipes assigned it
NoSortOption == "unassigned"

NoCalc == [reviews |-> <<>>, newRating |-> 1, called |-> TRUE, result |-> 10]

InitReviews ==
    /\ recipes = InsertAt(<<>>, 1, SeedRecipe(SeedReviews))
    /\ created = 1
    /\ clock = 1
    /\ favorites = <<>>
    /\ IdleSlots
    /\ calc = NoCalc
    /\ sortOption = NoSortOption

NextReviews ==
    \E p \in Procs :
        \/ CreateRequest(p)
        \/ CreateInsertOne(p)
        \/ UpdateRequest(p)
        \/ UpdateUpdateOne(p)
        \/ ReviewRequest(p)
        \/ ReviewComputeAverage(p)
        \/ ReviewUpdateOne(p)
        \/ DeleteRequest(p)
        \/ DeleteDeleteOne(p)
        \/ DeleteUpdateMany(p)

SpecReviews == InitReviews /\ [][NextReviews]_vars

\* the favorites handlers and recipe delete, on a server that holds one recipe
\* (recipe 2 does not exist) and no favorites
InitFavorites ==
    /\ recipes = InsertAt(<<>>, 1, SeedRecipe(<<>>))
    /\ created = 1
    /\ clock = 1
    /\ favorites = <<>>
    /\ IdleSlots
    /\ calc = NoCalc
    /\ sortOption = NoSortOption

NextFavorites ==
    \E p \in Procs :
        \/ FavAddRequest(p)
        \/ FavAddFindRecord(p)
        \/ FavAddGetRecipe(p)
        \/ FavAddFindDuplicate(p)
        \/ FavAddPush(p)
        \/ FavAddInsert(p)
        \/ FavRemoveRequest(p)
        \/ FavRemoveFind(p)
        \/ FavRemovePull(p)
        \/ DeleteRequest(p)
        \/ DeleteDeleteOne(p)
        \/ DeleteUpdateMany(p)

SpecFavorites == InitFavorites /\ [][NextFavorites]_vars

\* the recipes a listing server holds: each created by POST /recipes at a time
\* of its own and reviewed once at most
ListedBody(i) ==
    CASE i = 1 -> [GoodBody EXCEPT !.recipeName = "House V60", !.coffeeBeans = Arr(<<1, 2>>)]
      [] i = 2 -> [GoodBody EXCEPT !.recipeName = "Iced V90", !.brewingMethod = 2,
                                   !.brewer = 2]
      [] i = 3 -> [GoodBody EXCEPT !.recipeName = "Press pot", !.coffeeBeans = Arr(<<2>>),
                                   !.grinder = 2, !.brewingMethod = 2]
      [] OTHER -> [GoodBody EXCEPT !.recipeName = "Cold V60", !.coffeeBeans = Arr(<<1, 2>>),
                                   !.grinder = 2, !.brewer = 2]

ListedRating(i) == CASE i = 1 -> 5 [] i = 2 -> 4 [] i = 3 -> 4 [] OTHER -> 0

StoredRecipe(i) ==
    [fields |-> RecipeFields(ListedBody(i)),
     user |-> SeedUser,
     date |-> i,
     average_rating |->
        IF ListedRating(i) = 0 THEN 0 ELSE computeAverageRating(<<>>, ListedRating(i)),
     reviews |-> IF ListedRating(i) = 0 THEN <<>> ELSE <<SeedReview(1, ListedRating(i))>>]

InitList ==
    /\ \E n \in (MaxListed - 1)..MaxListed : recipes = [i \in 1..n |-> StoredRecipe(i)]
    /\ created = Len(recipes)
    /\ clock = created
    /\ favorites = <<>>
    /\ IdleSlots
    /\ calc = NoCalc
    /\ sortOption = NoSortOption

NextList ==
    \E p \in Procs :
        \/ ListRequest(p)
        \/ ListCount(p)
        \/ ListFind(p)

SpecList == InitList /\ [][NextList]_vars

\* a server on which ann@mail.io has favorited none or the first MaxFavorited of
\* the stored recipes, and bob@mail.io has no favorites record
InitFavList ==
    /\ recipes = [i \in 1..MaxFavorited |-> StoredRecipe(i)]
    /\ created = Len(recipes)
    /\ clock = created
    /\ \E n \in {0, MaxFavorited} :
          favorites = <<[user_email |-> "ann@mail.io", coffee_recipes |-> [i \in 1..n |-> i]]>>
    /\ IdleSlots
    /\ calc = NoCalc
    /\ sortOption = NoSortOption

NextFavList ==
    \E p \in Procs :
        \/ FavListRequest(p)
        \/ FavListFind(p)
        \/ FavListPopulate(p)

SpecFavList == InitFavList /\ [][NextFavList]_vars

\* a server with one or two recipes, each created by one of the users, its owner
\* hash made with any of the salts
OwnedRecipe(i, email, salt) ==
    [StoredRecipe(i) EXCEPT !.user = [username |-> "barista", email |-> hash(email, salt)]]

InitById ==
    /\ \E n \in 1..MaxById :
       \E owner \in [1..n -> WellFormedEmails \X (1..NumOwnerSalts)] :
          recipes = [i \in 1..n |-> OwnedRecipe(i, owner[i][1], owner[i][2])]
    /\ created = Len(recipes)
    /\ clock = created
    /\ favorites = <<>>
    /\ IdleSlots
    /\ calc = NoCalc
    /\ sortOption = NoSortOption

NextById ==
    \E p \in Procs :
        \/ GetRequest(p)
        \/ GetGetRecord(p)
        \/ GetPopulate(p)
        \/ AccessRequest(p)
        \/ AccessGetRecord(p)
        \/ AccessCompare(p)

SpecById == InitById /\ [][NextById]_vars

\* the endpoints that take an identifier, their requests handled one at a time
InitIds ==
    /\ recipes = InsertAt(<<>>, 1, SeedRecipe(<<>>))
    /\ created = 1
    /\ clock = 1
    /\ favorites = <<>>
    /\ IdleSlots
    /\ calc = NoCalc
    /\ sortOption = NoSortOption

NextIds ==
    \E p \in {1} :
        \/ GetRequest(p)
        \/ GetGetRecord(p)
        \/ GetPopulate(p)
        \/ AccessRequest(p)
        \/ AccessGetRecord(p)
        \/ AccessCompare(p)
        \/ UpdateRequest(p)
        \/ UpdateUpdateOne(p)
        \/ DeleteRequest(p)
        \/ DeleteDeleteOne(p)
        \/ DeleteUpdateMany(p)
        \/ ReviewRequest(p)
        \/ ReviewComputeAverage(p)
        \/ ReviewUpdateOne(p)
        \/ FavAddRequest(p)
        \/ FavAddFindRecord(p)
        \/ FavAddGetRecipe(p)
        \/ FavAddFindDuplicate(p)
        \/ FavAddPush(p)
        \/ FavAddInsert(p)
        \/ FavRemoveRequest(p)
        \/ FavRemoveFind(p)
        \/ FavRemovePull(p)
        \/ RefRequest(p)
        \/ RefGetRecord(p)
        \/ RefListRequest(p)
        \/ RefListFind(p)

SpecIds == InitIds /\ [][NextIds]_vars

\* a server with two reviewed recipes, both favorites of one user, whose
\* recipes are updated and reviewed
InitUpdate ==
    /\ recipes = [i \in 1..2 |-> [StoredRecipe(i) EXCEPT !.date = i - 1]]
    /\ created = Len(recipes)
    /\ clock = 1
    /\ favorites = <<[user_email |-> "ann@mail.io", coffee_recipes |-> <<1, 2>>]>>
    /\ IdleSlots
    /\ calc = NoCalc
    /\ sortOption = NoSortOption

NextUpdate ==
    \E p \in Procs :
        \/ UpdateRequest(p)
        \/ UpdateUpdateOne(p)
        \/ ReviewRequest(p)
        \/ ReviewComputeAverage(p)
        \/ ReviewUpdateOne(p)

SpecUpdate == InitUpdate /\ [][NextUpdate]_vars

\* the favorites of the users, added to and listed
InitFavorited ==
    /\ recipes = InsertAt(<<>>, 1, SeedRecipe(<<>>))
    /\ created = 1
    /\ clock = 1
    /\ favorites = <<>>
    /\ IdleSlots
    /\ calc = NoCalc
    /\ sortOption = NoSortOption

NextFavorited ==
    \E p \in Procs :
        \/ FavAddRequest(p)
        \/ FavAddFindRecord(p)
        \/ FavAddGetRecipe(p)
        \/ FavAddFindDuplicate(p)
        \/ FavAddPush(p)
        \/ FavAddInsert(p)
        \/ FavListRequest(p)
        \/ FavListFind(p)
        \/ FavListPopulate(p)

SpecFavorited == InitFavorited /\ [][NextFavorited]_vars

(***************************************************************************)
(* SpecAverage: computeAverageRating as a function of the stored reviews   *)
(* and the new rating                                                      *)
(***************************************************************************)
\* n reviews rated k
Rated(k, n) == [i \in 1..n |-> [rating |-> k]]

\* every list of at most max reviews, up to the order of the reviews (the sum
\* does not depend on it): a ones, b twos, ...
ReviewLists(max) ==
    UNION { UNION { UNION { UNION {
        { Rated(1, a) \o Rated(2, b) \o Rated(3, c) \o Rated(4, d) \o Rated(5, e) :
            e \in 0..(max - a - b - c - d) } :
            d \in 0..(max - a - b - c) } :
            c \in 0..(max - a - b) } :
            b \in 0..(max - a) } :
            a \in 0..max }

InitAverage ==
    /\ calc \in [reviews : ReviewLists(MaxExisting), newRating : Ratings, called : {FALSE}, result : {0}]
    /\ sortOption = NoSortOption
    /\ recipes = <<>>
    /\ created = 0
    /\ clock = 0
    /\ favorites = <<>>
    /\ IdleSlots

ApplyAverage ==
    /\ ~calc.called
    /\ calc' = [calc EXCEPT !.called = TRUE,
                            !.result = computeAverageRating(calc.reviews, calc.newRating)]
    /\ UNCHANGED <<dbVars, clock, reqVars, sortOption>>

NextAverage == ApplyAverage

SpecAverage == InitAverage /\ [][NextAverage]_vars

\* the recipes populateRecipeFields is called with: up to MaxBeans coffee beans,
\* each reference stored or not, with or without a grinder
PopulateInputs ==
    { [SeedFields EXCEPT !.coffee_beans = beans, !.grinder = grinder,
                         !.brewer = brewer, !.brewing_method = method] :
        beans \in UNION {[1..n -> 1..(NumReferences + 1)] : n \in 0..MaxBeans},
        grinder \in {UndefinedId, 1, NumReferences + 1},
        brewer \in {1, NumReferences + 1},
        method \in {1, NumReferences + 1} }

InitPopulate ==
    /\ calc \in [recipe : PopulateInputs, called : {FALSE}, result : {Null}]
    /\ sortOption = NoSortOption
    /\ recipes = <<>>
    /\ created = 0
    /\ clock = 0
    /\ favorites = <<>>
    /\ IdleSlots

ApplyPopulate ==
    /\ ~calc.called
    /\ calc' = [calc EXCEPT !.called = TRUE,
                            !.result = populateRecipeFields(calc.recipe)]
    /\ UNCHANGED <<dbVars, clock, reqVars, sortOption>>

NextPopulate == ApplyPopulate

SpecPopulate == InitPopulate /\ [][NextPopulate]_vars

\* C1: for n >= 0 stored reviews and a new rating r in 1..5,
\* computeAverageRating returns (r1 + ... + rn + r) / (n + 1) rounded to one
\* decimal with ties away from zero.
C1_AverageIsRoundHalfAway ==
    calc.called =>
        calc.result = RoundHalfAway(SumRatings(calc.reviews) + calc.newRating,
                                    Len(calc.reviews) + 1)

(***************************************************************************)
(* Properties of the recipe and review handlers (SpecReviews)              *)
(***************************************************************************)
\* the mean of the stored ratings rounded to one decimal, ties away from
\* zero; 0 for no reviews
RoundedMean(reviews) ==
    IF reviews = <<>> THEN 0
    ELSE RoundHalfAway(SumRatings(reviews), Len(reviews))

\* C2: every stored recipe on which no two review-appends overlapped has
\* average_rating = the mean of its stored ratings rounded to one decimal
\* (ties away from zero), and 0 when it has no reviews.
C2_AverageIsRoundedMean ==
    \A id \in DOMAIN recipes :
        id \notin overlapped =>
            recipes[id].average_rating = RoundedMean(recipes[id].reviews)

\* C3: whenever the reviews or the average_rating of a stored recipe change,
\* the step is the updateOne of a review-append on that recipe, and it both
\* appends that request's new review and sets that request's new average:
\* no step, of a failing request either, does one without the other.
C3_PushAndSetTogether ==
    [][\A id \in DOMAIN recipes \cap DOMAIN recipes' :
          (\/ recipes'[id].reviews # recipes[id].reviews
           \/ recipes'[id].average_rating # recipes[id].average_rating)
          => \E p \in Procs :
                /\ pc[p] = "updateOneReview"
                /\ req[p].recipe_id = id
                /\ recipes'[id].reviews = Append(recipes[id].reviews, loc[p].newReview)
                /\ recipes'[id].average_rating = loc[p].newAverageRating]_vars

\* a review-append answered 500 whose update took effect all the same: the
\* recipe ends with the new review and carries the new average
C3_FailedAppendTookEffect ==
    /\ lastResponse.req.kind = "review"
    /\ lastResponse.code = 500
    /\ "newAverageRating" \in DOMAIN lastResponse.loc
    /\ lastResponse.req.recipe_id \in DOMAIN recipes
    /\ LET doc == recipes[lastResponse.req.recipe_id]
       IN  /\ doc.reviews[Len(doc.reviews)] = lastResponse.loc.newReview
           /\ doc.average_rating = lastResponse.loc.newAverageRating
           /\ doc.average_rating # SeedRecipe(SeedReviews).average_rating

\* C4: when the updateOne of a review-append runs on a recipe that gained
\* reviews since the request read the ratings, the review is stored after the
\* ones already there and the average_rating written is the one computed from
\* the ratings the request read, not from the stored ones.
C4_StaleAverageWritten ==
    [][\A p \in Procs :
          (/\ pc[p] = "updateOneReview"
           /\ req[p].recipe_id \in DOMAIN recipes
           /\ Len(recipes[req[p].recipe_id].reviews) > Len(loc[p].recipeRecord.reviews)
           /\ lastResponse'.code = 201
           /\ pc'[p] = "idle")
          => LET id == req[p].recipe_id
             IN  /\ id \in DOMAIN recipes'
                 /\ recipes'[id].reviews = Append(recipes[id].reviews, loc[p].newReview)
                 /\ recipes'[id].average_rating =
                        computeAverageRating(loc[p].recipeRecord.reviews,
                                             loc[p].newReview.rating)]_vars

\* both racing reviews are stored and the average is neither rounding of the
\* mean of the stored ratings
C4_RaceLeftStaleAverage ==
    /\ lastResponse.req.kind = "review"
    /\ lastResponse.code = 201
    /\ lastResponse.req.recipe_id \in DOMAIN recipes
    /\ LET doc == recipes[lastResponse.req.recipe_id]
       IN  /\ Len(doc.reviews) = Len(lastResponse.loc.recipeRecord.reviews) + 2
           /\ doc.reviews[Len(doc.reviews)] = lastResponse.loc.newReview
           /\ doc.average_rating # RoundedMean(doc.reviews)
           /\ doc.average_rating # CodeRoundedMean(doc.reviews)

(***************************************************************************)
(* Properties of the favorites handlers and recipe delete (SpecFavorites)  *)
(***************************************************************************)
AlreadyInFavorites == {<<"recipeId", "Recipe ID is already in favorites collection">>}
NotInFavorites == {<<"recipeId", "Recipe ID does not exist in favorites collection">>}

\* does some record of the collection hold id
SomeRecordHolds(favs, id) == \E i \in 1..Len(favs) : Holds(favs[i].coffee_recipes, id)

\* does some record of email hold id
EmailHolds(favs, email, id) ==
    \E i \in 1..Len(favs) : favs[i].user_email = email /\ Holds(favs[i].coffee_recipes, id)

\* C5: when DELETE /recipes/X answers 200, X is not in the recipes collection
\* and no favorites record holds X, whatever records held it before.
C5_DeleteLeavesNoReference ==
    [][\A p \in Procs :
          (/\ pc[p] = "updateManyFavorites"
           /\ pc'[p] = "idle"
           /\ lastResponse'.code = 200)
          => /\ req[p].recipe_id \notin DOMAIN recipes'
             /\ ~SomeRecordHolds(favorites', req[p].recipe_id)]_vars

\* a delete answered 200 that removed the recipe and pulled it from two
\* favorites records
C5_DeletePrunedTwoRecords ==
    /\ lastResponse.req.kind = "delete"
    /\ lastResponse.code = 200
    /\ lastResponse.loc.deletedCount = 1
    /\ lastResponse.loc.modifiedCount >= 2
    /\ lastResponse.req.recipe_id \notin DOMAIN recipes
    /\ ~SomeRecordHolds(favorites, lastResponse.req.recipe_id)

\* C6: a Favorites Add of an existing recipe that runs alone and whose email
\* has no record holding the recipe succeeds (200 or 201) and the recipe is
\* then in a record of the email; a Favorites Add that runs alone straight
\* after a successful add of the same recipe for the same email, the recipe
\* still existing, is answered 400 'already in favorites' and leaves the
\* favorites collection unchanged (no storage call failing).
C6_AddTwiceSucceedsThenRejects ==
    [][\A p \in Procs :
          (/\ pc[p] # "idle"
           /\ req[p].kind = "favAdd"
           /\ solo = p
           /\ req[p].recipeId \in DOMAIN recipes)
          => /\ (/\ ~EmailHolds(favorites, req[p].email, req[p].recipeId)
                 /\ pc'[p] = "idle"
                 /\ lastResponse'.code # 500)
                => /\ lastResponse'.code \in {200, 201}
                   /\ EmailHolds(favorites', req[p].email, req[p].recipeId)
             /\ loc[p].repeats # 0
                => /\ favorites' = favorites
                   /\ (pc'[p] = "idle" /\ lastResponse'.code # 500)
                      => /\ lastResponse'.code = 400
                         /\ lastResponse'.data = AlreadyInFavorites]_vars

\* the second of two adds in a row was rejected, the first having created the
\* record of the email
C6_SecondAddRejectedAfterCreate ==
    /\ lastResponse.req.kind = "favAdd"
    /\ lastResponse.code = 400
    /\ lastResponse.data = AlreadyInFavorites
    /\ lastResponse.alone
    /\ lastResponse.loc.repeats = 201
    /\ lastResponse.req.recipeId \in DOMAIN recipes

\* C7: no favorites record holds the same recipe reference twice.
C7_NoDuplicateReference ==
    \A i \in 1..Len(favorites) :
        \A j, k \in 1..Len(favorites[i].coffee_recipes) :
            j # k => favorites[i].coffee_recipes[j] # favorites[i].coffee_recipes[k]

\* C8: whenever a Favorites Add stores a recipe id (in a new record or in an
\* existing one), the recipe is in the recipes collection at that moment.
C8_InsertedRecipeExists ==
    [][\A p \in Procs :
          (/\ pc[p] \in {"insertOneFavorite", "updateOnePush"}
           /\ pc'[p] = "idle"
           /\ favorites' # favorites)
          => req[p].recipeId \in DOMAIN recipes]_vars

\* C9, its parts.  A Favorites Remove that finds no record of the email
\* holding the recipe answers 400 and changes nothing:
RemoveOfAbsentRejected ==
    \A p \in Procs :
        pc[p] = "findOneHolding" /\ pc'[p] = "idle"
        => /\ favorites' = favorites /\ recipes' = recipes
           /\ (/\ ~EmailHolds(favorites, req[p].email, req[p].recipeId)
               /\ lastResponse'.code # 500)
              => lastResponse'.code = 400 /\ lastResponse'.data = NotInFavorites

\* the update of a Favorites Remove changes one record at most, the first of
\* the email that holds the recipe, and takes the recipe out of its list:
RemovePullsFromOneRecord ==
    \A p \in Procs :
        pc[p] = "updateOnePull" /\ pc'[p] = "idle"
        => LET idx == FindByEmailHolding(favorites, req[p].email, req[p].recipeId)
           IN  /\ recipes' = recipes
               /\ Len(favorites') = Len(favorites)
               /\ \A i \in 1..Len(favorites) :
                     /\ favorites'[i].user_email = favorites[i].user_email
                     /\ i # idx => favorites'[i] = favorites[i]
               /\ lastResponse'.code = 200 /\ idx # 0
                  => favorites'[idx].coffee_recipes
                        = Pull(favorites[idx].coffee_recipes, req[p].recipeId)

\* after a Favorites Remove answered 200, no record of the email holds the recipe:
RemoveLeavesEmailWithout ==
    \A p \in Procs :
        pc[p] = "updateOnePull" /\ pc'[p] = "idle" /\ lastResponse'.code = 200
        => ~EmailHolds(favorites', req[p].email, req[p].recipeId)

\* no step takes a favorites record away or changes its email:
RecordsPersist ==
    /\ Len(favorites') >= Len(favorites)
    /\ \A i \in 1..Len(favorites) : favorites'[i].user_email = favorites[i].user_email

\* C9: Favorites Remove of X for email E answers 400 and changes nothing when
\* no list of E holds X; otherwise it takes X out of E's list and changes
\* nothing else; and a favorites record, once there, is there in every later
\* state, with an empty list too.
C9_RemoveSemantics ==
    [][/\ RemoveOfAbsentRejected
       /\ RemovePullsFromOneRecord
       /\ RemoveLeavesEmailWithout
       /\ RecordsPersist]_vars

\* C10: no two favorites records have the same user_email.
C10_OneRecordPerEmail ==
    \A i, j \in 1..Len(favorites) :
        i # j => favorites[i].user_email # favorites[j].user_email

(***************************************************************************)
(* Properties of GET /recipes (SpecList)                                   *)
(***************************************************************************)
\* the id-like parameters of a query that are not valid identifiers
InvalidIdFields(q) ==
    (IF \E i \in 1..Len(q.beans) : ~ObjectIdIsValid(q.beans[i]) THEN {"beans"} ELSE {})
    \cup (IF q.grinder = MalformedId THEN {"grinder"} ELSE {})
    \cup (IF q.method = MalformedId THEN {"method"} ELSE {})
    \cup (IF q.brewer = MalformedId THEN {"brewer"} ELSE {})

\* C11: a GET /recipes whose rating is not numeric or whose sort is neither
\* absent, 'date' nor 'rating' is answered 400 with an entry for each of the
\* two that is invalid, and never gets as far as a storage query.
C11_InvalidQueryRejected ==
    /\ \A p \in Procs :
          req[p].kind = "list" => QueryErrorData(req[p].query) = {}
    /\ (lastResponse.req.kind = "list" /\ QueryErrorData(lastResponse.req.query) # {})
          => /\ lastResponse.code = 400
             /\ lastResponse.data = QueryErrorData(lastResponse.req.query)
             /\ "totalCount" \notin DOMAIN lastResponse.loc

\* C12: a GET /recipes with a grinder, method, brewer or beans entry that is
\* not a valid identifier is answered 400 with an error keyed by such a field,
\* and never gets as far as a storage query.
C12_InvalidIdRejected ==
    /\ \A p \in Procs :
          req[p].kind = "list" => InvalidIdFields(req[p].query) = {}
    /\ (lastResponse.req.kind = "list" /\ InvalidIdFields(lastResponse.req.query) # {})
          => /\ lastResponse.code = 400
             /\ \E e \in lastResponse.data : e[1] \in InvalidIdFields(lastResponse.req.query)

\* is pattern, letter case aside, a substring of text
IsSubstring(pattern, text) ==
    \E start \in 0..(Len(text) - Len(pattern)) :
        \A j \in 1..Len(pattern) : Lower(pattern[j]) = Lower(text[start + j])

\* does a recipe satisfy every criterion the query supplies
Satisfies(doc, q) ==
    /\ Truthy(q.name) => IsSubstring(Chars(q.name), Chars(doc.fields.recipe_name))
    /\ \A i \in 1..Len(q.beans) :
          \E j \in 1..Len(doc.fields.coffee_beans) : doc.fields.coffee_beans[j] = q.beans[i]
    /\ q.grinder # UndefinedId => doc.fields.grinder = q.grinder
    /\ q.method # UndefinedId => doc.fields.brewing_method = q.method
    /\ q.brewer # UndefinedId => doc.fields.brewer = q.brewer
    /\ Truthy(q.rating) => doc.average_rating >= RatingTenths(q.rating)

\* C13: the recipes a valid GET /recipes counts and returns from are exactly
\* the stored recipes that satisfy all the criteria the query supplies (name
\* as a case-insensitive substring, beans all held, grinder, method and
\* brewer equal, average_rating at least the rating).
C13_MatchedAreThoseSatisfying ==
    [][\A p \in Procs :
          /\ (pc[p] = "countDocuments" /\ pc'[p] = "findRecipes")
                => loc'[p].totalCount
                      = Cardinality({id \in DOMAIN recipes : Satisfies(recipes[id], req[p].query)})
          /\ (pc[p] = "findRecipes" /\ pc'[p] = "idle" /\ lastResponse'.code = 200)
                => \A i \in 1..Len(lastResponse'.loc.recipes) :
                      Satisfies(recipes[lastResponse'.loc.recipes[i]._id], req[p].query)]_vars

\* C14: the pages of a GET /recipes response is ceil(count / limit), limit
\* being the requested limit, 10 when absent.
C14_PagesFromRequestedLimit ==
    (lastResponse.req.kind = "list" /\ lastResponse.code = 200)
        => lastResponse.loc.totalPages
              = Ceil(lastResponse.loc.totalCount, lastResponse.loc.limit)

\* the smaller of two numbers, and a number or 0 when it is negative
Min(a, b) == IF a < b THEN a ELSE b
AtLeastZero(a) == IF a < 0 THEN 0 ELSE a

\* C15: a GET /recipes with N matching recipes, limit L and page p that gets
\* its find answered responds 200 with the matches that come after the first
\* (p-1)*L in the order the sort produced, min(L, max(0, N - (p-1)*L)) of
\* them: none, and no error, for a page past the last.
C15_PageWindow ==
    [][\A p \in Procs :
          (pc[p] = "findRecipes" /\ pc'[p] = "idle" /\ lastResponse'.code # 500)
          => LET matches == Matching(recipes, loc[p].criteria)
                 N == Cardinality(matches)
                 L == loc[p].limit
                 skipped == (loc[p].page - 1) * L
                 result == lastResponse'.loc.recipes
             IN  /\ lastResponse'.code = 200
                 /\ Len(result) = Min(L, AtLeastZero(N - skipped))
                 /\ \E order \in SortedOrders(recipes, matches, sortOption) :
                       \A i \in 1..Len(result) : result[i]._id = order[skipped + i]]_vars

\* the second page of three matches at limit 2 holds the one match that is left
C15_LastPagePartlyFilled ==
    /\ lastResponse.req.kind = "list"
    /\ lastResponse.code = 200
    /\ lastResponse.loc.limit = 2
    /\ lastResponse.loc.page = 2
    /\ lastResponse.loc.totalCount = 3
    /\ Len(lastResponse.loc.recipes) = 1


\* the window of positions from+1..to of a list (empty when to <= from)
Window(list, from, to) == [i \in 1..(IF to > from THEN to - from ELSE 0) |-> list[from + i]]

\* C16: a favorites listing for an email whose record holds n references, all
\* to existing recipes, answers with count n, pages ceil(n / 10), and as page p
\* the populated recipes at positions (p-1)*10 .. p*10-1 of the stored order,
\* whatever limit parameter the request carries.
C16_FavoritesListed ==
    [][\A p \in Procs :
        (/\ req[p].kind = "favList"
         /\ pc[p] \in {"findOneFavorites", "getRecordByIdFavorite"}
         /\ pc'[p] = "idle"
         /\ lastResponse'.code # 500
         /\ FindByEmail(favorites, req[p].email) # 0
         /\ \A i \in 1..Len(favorites[FindByEmail(favorites, req[p].email)].coffee_recipes) :
                favorites[FindByEmail(favorites, req[p].email)].coffee_recipes[i] \in DOMAIN recipes)
        => LET stored == favorites[FindByEmail(favorites, req[p].email)].coffee_recipes
               n == Len(stored)
               page == IF req[p].page = Undefined THEN 1 ELSE ParseInt(req[p].page).n
               last == IF page * 10 < n THEN page * 10 ELSE n
           IN  /\ lastResponse'.code = 200
               /\ lastResponse'.loc.count = n
               /\ lastResponse'.loc.pages = (n + 9) \div 10
               /\ lastResponse'.loc.result =
                      Window([i \in 1..n |-> PopulatedRecipe(recipes, stored[i])],
                             (page - 1) * 10, last)]_vars

\* the second page of a listing of more than ten favorites was returned to a
\* request that asked for a limit of 5
C16_SecondPageListed ==
    /\ lastResponse.req.kind = "favList"
    /\ lastResponse.code = 200
    /\ lastResponse.req.page = "2"
    /\ lastResponse.req.limit = "5"
    /\ lastResponse.loc.count > 10
    /\ Len(lastResponse.loc.result) = lastResponse.loc.count - 10

\* C16 (no record): an email with no favorites record is answered 200 with a
\* null result and one page
C16_NoRecordListed ==
    /\ lastResponse.req.kind = "favList"
    /\ lastResponse.code = 200
    /\ ~lastResponse.loc.found

\* the email a stored owner hash was made from, and the salt it was made with
HashedFrom(h) == h.plain
SaltOf(h) == h.salt

\* C17: hashing is a salted one-way function: every stored owner hash verifies
\* against the email it was made from and against no other email, two hashes of
\* one email made with different salts differ and both verify, and the access
\* endpoint returns the outcome of the comparison as a value: 200 with result
\* true on a match and 200 with result false on a mismatch, never an error.
C17_SaltedHashVerifies ==
    /\ [](\A i \in DOMAIN recipes :
            /\ \A e \in WellFormedEmails :
                  compareHash(e, recipes[i].user.email) <=> (e = HashedFrom(recipes[i].user.email))
            /\ \A j \in DOMAIN recipes :
                  (/\ HashedFrom(recipes[i].user.email) = HashedFrom(recipes[j].user.email)
                   /\ SaltOf(recipes[i].user.email) # SaltOf(recipes[j].user.email))
                  => /\ recipes[i].user.email # recipes[j].user.email
                     /\ compareHash(HashedFrom(recipes[i].user.email), recipes[i].user.email)
                     /\ compareHash(HashedFrom(recipes[i].user.email), recipes[j].user.email))
    /\ [][\A p \in Procs :
            (pc[p] = "compareHash" /\ pc'[p] = "idle")
            => /\ lastResponse'.code = 200
               /\ lastResponse'.loc.verified = (req[p].email = HashedFrom(loc[p].hash))]_vars

\* two recipes of one owner carry hashes made with different salts, and an
\* access request with another email was answered 200 with result false
C17_MismatchAnsweredFalse ==
    /\ lastResponse.req.kind = "access"
    /\ lastResponse.code = 200
    /\ ~lastResponse.loc.verified
    /\ lastResponse.req.email # HashedFrom(lastResponse.loc.hash)
    /\ \E i, j \in DOMAIN recipes :
          /\ HashedFrom(recipes[i].user.email) = HashedFrom(recipes[j].user.email)
          /\ SaltOf(recipes[i].user.email) # SaltOf(recipes[j].user.email)

\* the email a request to update or delete a recipe supplies
SuppliedEmail(r) == IF r.kind = "update" THEN r.body.email ELSE Undefined

\* C18: a step of an update or a delete request that changes or removes a
\* stored recipe is taken only by a request whose supplied email verifies
\* against the owner hash of that recipe.
C18_WriteOnlyByVerifiedOwner ==
    [][\A p \in Procs :
        (/\ pc[p] \in {"updateOneRecipe", "deleteOne"}
         /\ req[p].recipe_id \in DOMAIN recipes
         /\ recipes' # recipes)
        => /\ SuppliedEmail(req[p]) # Undefined
           /\ compareHash(SuppliedEmail(req[p]), recipes[req[p].recipe_id].user.email)]_vars

\* the request of slot p names, by a well-formed id, a recipe that is not stored
\* (for a delete past its deleteOne: one that deleteOne did not find)
NamesNoRecipe(p) ==
    /\ req[p].kind \in {"get", "access", "update", "delete", "review"}
    /\ ObjectIdIsValid(req[p].recipe_id)
    /\ IF pc[p] = "updateManyFavorites"
       THEN loc[p].deletedCount = 0
       ELSE req[p].recipe_id \notin DOMAIN recipes

\* C19: a request addressed by a well-formed recipe id that matches no stored
\* recipe, served with no other request in flight, is never answered with a
\* success: its answer is the 400 (or, when a storage call fails, the 500), and
\* its last step changes nothing stored.
C19_UnknownIdRejected ==
    [][\A p \in Procs :
        (/\ pc[p] # "idle"
         /\ pc'[p] = "idle"
         /\ NamesNoRecipe(p)
         /\ lastResponse'.alone)
        => /\ lastResponse'.code \in {400, 500}
           /\ dbVars' = dbVars]_vars

\* the fields of a recipe body that are missing, malformed or out of range
InvalidRecipeFields(f) ==
    {k \in {"recipeName"} : f.recipeName = Undefined \/ Len(f.recipeName) < 5}
    \cup {k \in {"totalBrewTime"} : f.totalBrewTime = Undefined}
    \cup {k \in {"brewYield"} : f.brewYield = Undefined}
    \cup {k \in {"waterAmount"} : f.waterAmount = Undefined}
    \cup {k \in {"brewingMethod"} : f.brewingMethod \in {UndefinedId, MalformedId}}
    \cup {k \in {"grinder"} : f.grinder \in {UndefinedId, MalformedId}}
    \cup {k \in {"brewer"} : f.brewer \in {UndefinedId, MalformedId}}

\* C20: a create or update request whose body has missing, malformed or
\* out-of-range fields is answered with a 400 that has an entry for every such
\* field.
C20_InvalidBodyRejected ==
    (/\ lastResponse.req.kind \in {"create", "update"}
     /\ lastResponse.code # 0
     /\ lastResponse.req.kind = "update" => ObjectIdIsValid(lastResponse.req.recipe_id)
     /\ InvalidRecipeFields(lastResponse.req.body) # {})
    => /\ lastResponse.code = 400
       /\ \A k \in InvalidRecipeFields(lastResponse.req.body) :
             \E e \in lastResponse.data : e[1] = k

\* the request carries, as path parameter or as recipeId of the body, an id
\* that is not in the identifier format
CarriesMalformedId(r) ==
    \/ /\ r.kind \in {"get", "access", "update", "delete", "review", "reference"}
       /\ r.recipe_id = MalformedId
    \/ /\ r.kind \in {"favAdd", "favRemove"}
       /\ r.recipeId = MalformedId

\* C21: a request to an endpoint that takes an identifier, carrying an id that
\* is not in the identifier format, is answered 400 in the step in which it
\* arrives: it never goes on to a storage call, and nothing stored changes.
C21_MalformedIdRejected ==
    [][/\ \A p \in Procs :
            (pc[p] = "idle" /\ pc'[p] # "idle") => ~CarriesMalformedId(req'[p])
       /\ (pc' = pc /\ CarriesMalformedId(lastResponse'.req))
            => (lastResponse'.code = 400 /\ dbVars' = dbVars)]_vars

\* a request for a brewing method by a malformed id was answered 400 with the
\* method_id entry
C21_MalformedMethodIdRejected ==
    /\ lastResponse.req.kind = "reference"
    /\ lastResponse.req.collection = "methods"
    /\ lastResponse.req.recipe_id = MalformedId
    /\ lastResponse.code = 400
    /\ lastResponse.data = {<<"method_id", "Invalid coffee method ID">>}

\* slot p waits for a storage call
AtStorageCall(p) == pc[p] \notin {"idle", "compareHash"}

\* C22: a request whose storage call fails is answered 500 with the fixed
\* message and nothing else: at every storage call of every request the failing
\* outcome exists and ends the request with a 500, every response sent from a
\* storage call is a 200, 201, 400 or 500, and every 500 carries exactly the
\* message 'Unable to communicate with database'.
C22_StorageFailureAnswered ==
    /\ [](\A p \in Procs :
            AtStorageCall(p)
            => ENABLED (NextIds /\ pc'[p] = "idle" /\ lastResponse'.code = 500
                          /\ lastResponse'.req = req[p]))
    /\ [][\A p \in Procs :
            (AtStorageCall(p) /\ pc'[p] = "idle")
            => /\ lastResponse'.code \in {200, 201, 400, 500}
               /\ lastResponse'.req = req[p]
               /\ lastResponse'.code = 500
                    => lastResponse'.data =
                         {<<"message", "Unable to communicate with database">>}]_vars

\* a delete whose updateMany failed after its deleteOne had removed the recipe
\* was answered 500 with the fixed message
C22_FailedDeleteAnswered ==
    /\ lastResponse.req.kind = "delete"
    /\ lastResponse.code = 500
    /\ "deletedCount" \in DOMAIN lastResponse.loc
    /\ lastResponse.loc.deletedCount = 1
    /\ lastResponse.data = {<<"message", "Unable to communicate with database">>}
    /\ lastResponse.req.recipe_id = 1
    /\ 1 \notin DOMAIN recipes

\* the document of a reference collection an id resolves to, or null
Resolved(collection, id) ==
    IF id \in 1..NumReferences THEN [collection |-> collection, _id |-> id]
    ELSE [collection |-> "null", _id |-> 0]

\* C23: populateRecipeFields replaces coffee_beans by a list of the same length
\* and order holding for each id its bean document, or null when it resolves to
\* nothing; replaces grinder by its document (or null) only when the recipe has
\* a grinder; always replaces brewer and brewing_method by their document or
\* null; leaves every other field as it was; and changes nothing stored.
C23_PopulateResolvesReferences ==
    /\ [](calc.called =>
            /\ Len(calc.result.coffee_beans) = Len(calc.recipe.coffee_beans)
            /\ \A i \in 1..Len(calc.recipe.coffee_beans) :
                  calc.result.coffee_beans[i] = Resolved("beans", calc.recipe.coffee_beans[i])
            /\ calc.result.grinder =
                  IF calc.recipe.grinder = UndefinedId THEN UndefinedId
                  ELSE Resolved("grinders", calc.recipe.grinder)
            /\ calc.result.brewer = Resolved("brewers", calc.recipe.brewer)
            /\ calc.result.brewing_method = Resolved("methods", calc.recipe.brewing_method)
            /\ \A k \in DOMAIN calc.recipe \ {"coffee_beans", "grinder", "brewer", "brewing_method"} :
                  calc.result[k] = calc.recipe[k])
    /\ [][dbVars' = dbVars]_vars

\* a recipe without a grinder, whose second of three beans and whose brewer
\* resolve to nothing, was populated
C23_MissingReferencesPopulated ==
    /\ calc.called
    /\ calc.recipe.grinder = UndefinedId
    /\ Len(calc.recipe.coffee_beans) = 3
    /\ calc.recipe.coffee_beans[2] \notin ReferenceIds
    /\ calc.recipe.coffee_beans[1] \in ReferenceIds
    /\ calc.recipe.brewer \notin ReferenceIds
    /\ calc.result.coffee_beans[2] = Null
    /\ calc.result.coffee_beans[1] # Null

\* the rating of a request body is an integer from 1 to 5
IntegerRating(raw) == raw \in {"1", "2", "3", "4", "5"}

\* the body of a review-append request breaks a rule of the review fields
BreaksReviewRules(body) ==
    \/ ~IntegerRating(body.rating)
    \/ Len(body.title) < 5
    \/ Len(body.content) < 5
    \/ Len(body.username) < 5

\* C24: every stored review has an integer rating from 1 to 5 and a title, a
\* content and a username of at least 5 characters, and a review-append request
\* that breaks one of these rules is answered 400 (500 when a storage call
\* fails), never with the 201 of a stored review.
C24_InvalidReviewRejected ==
    /\ \A id \in DOMAIN recipes : \A i \in 1..Len(recipes[id].reviews) :
          /\ recipes[id].reviews[i].rating \in 1..5
          /\ Len(recipes[id].reviews[i].title) >= 5
          /\ Len(recipes[id].reviews[i].content) >= 5
          /\ Len(recipes[id].reviews[i].username) >= 5
    /\ (/\ lastResponse.req.kind = "review"
        /\ lastResponse.code # 0
        /\ ObjectIdIsValid(lastResponse.req.recipe_id)
        /\ lastResponse.req.body.email # Undefined
        /\ BreaksReviewRules(lastResponse.req.body))
       => lastResponse.code \in {400, 500}

\* the sort key a request's own sort parameter selects
OwnSortKey(q) == IF q.sort = "rating" THEN "average_rating" ELSE "date"

\* C25: the find of a GET /recipes request sorts by the key its own sort
\* parameter selected, whatever other requests were handled since it parsed its
\* parameters.
C25_FindSortsByOwnParameter ==
    [][\A p \in Procs :
        (/\ pc[p] = "findRecipes"
         /\ pc'[p] = "idle"
         /\ lastResponse'.code = 200)
        => sortOption = OwnSortKey(req[p].query)]_vars

\* C26: when a Favorites Add of recipe X into an existing record is the last
\* request in flight, and the Delete of X it ran beside has been answered 200,
\* no favorites record holds X once the add has finished.
C26_NoReferenceSurvivesDelete ==
    [][\A p \in Procs :
        (/\ pc[p] = "updateOnePush"
         /\ pc'[p] = "idle"
         /\ \A q \in Procs \ {p} : pc[q] = "idle"
         /\ lastResponse.req.kind = "delete"
         /\ lastResponse.code = 200
         /\ lastResponse.req.recipe_id = req[p].recipeId)
        => ~SomeRecordHolds(favorites', req[p].recipeId)]_vars

\* C27: a stale reference does not make a Favorites List fail: at every turn
\* of its populate loop, whether or not the recipe of that turn is stored, the
\* request can go on to the next turn or to its success response (a 500 is the
\* answer to a failing storage call only).
C27_StaleReferenceListed ==
    \A p \in Procs :
        pc[p] = "getRecordByIdFavorite"
        => ENABLED (/\ FavListPopulate(p)
                    /\ ~(pc'[p] = "idle" /\ lastResponse'.code = 500))

\* C28: a request whose handler has run to its end has been sent a response,
\* with status 200, 201, 400 or 500.
C28_EveryRequestAnswered ==
    lastResponse.req.kind # "none" => lastResponse.code \in {200, 201, 400, 500}

\* C29: the step in which an update of a stored recipe takes effect and is
\* answered 200 sets the recipe's editable fields to those of the request and
\* its date, and leaves its reviews, its average_rating and its owner, every
\* other recipe and every favorites record as they were.
C29_UpdateKeepsTheRest ==
    [][\A p \in Procs :
        (/\ pc[p] = "updateOneRecipe"
         /\ pc'[p] = "idle"
         /\ lastResponse'.code = 200
         /\ req[p].recipe_id \in DOMAIN recipes)
        => LET id == req[p].recipe_id
           IN  /\ DOMAIN recipes' = DOMAIN recipes
               /\ recipes'[id].fields = RecipeFields(req[p].body)
               /\ recipes'[id].reviews = recipes[id].reviews
               /\ recipes'[id].average_rating = recipes[id].average_rating
               /\ recipes'[id].user = recipes[id].user
               /\ \A other \in DOMAIN recipes \ {id} : recipes'[other] = recipes[other]
               /\ favorites' = favorites]_vars

\* an update answered 200 renamed the recipe that has reviews, beside another
\* stored recipe
C29_ReviewedRecipeUpdated ==
    /\ lastResponse.req.kind = "update"
    /\ lastResponse.code = 200
    /\ lastResponse.req.recipe_id = 1
    /\ DOMAIN recipes = {1, 2}
    /\ recipes[1].fields.recipe_name = lastResponse.req.body.recipeName
    /\ recipes[1].fields.recipe_name # StoredRecipe(1).fields.recipe_name
    /\ Len(recipes[1].reviews) >= 2
    /\ recipes[1].average_rating # 0
    /\ Len(recipes[2].reviews) >= 1

\* C30: when a review-append is answered 201, the recipe is stored and the
\* request's new review is an element of its reviews.
C30_AnsweredReviewIsStored ==
    [][\A p \in Procs :
        (/\ pc[p] = "updateOneReview"
         /\ pc'[p] = "idle"
         /\ lastResponse'.code = 201)
        => /\ req[p].recipe_id \in DOMAIN recipes'
           /\ \E i \in 1..Len(recipes'[req[p].recipe_id].reviews) :
                 recipes'[req[p].recipe_id].reviews[i] = loc[p].newReview]_vars

=============================================================================
